---- MODULE Spec2Model ----
(***************************************************************************)
(* Model of the D&D scheduler bot: the persistent store (groups, sessions, *)
(* session options, responses, reminders) and the command / callback       *)
(* handlers that read and write it.  Every handler is an async function;    *)
(* each database call is an await point, so a handler is modelled as a      *)
(* sequence of steps, one per database statement that reads or writes       *)
(* mutable rows, and the steps of different handlers interleave.  The       *)
(* reminder service (check_and_send_reminders) is modelled the same way.    *)
(*                                                                         *)
(* The handlers share one connection pool and take no lock of their own;   *)
(* the model lets any two of them overlap, which is what the properties    *)
(* about concurrent requests are about.  It does not rely on the order in  *)
(* which the update dispatcher of the bot framework hands updates of one   *)
(* chat to the handlers.                                                   *)
(***************************************************************************)
EXTENDS Integers, Sequences, FiniteSets, TLC

\* ---- bounds of the model ------------------------------------------------
NumProcs == 2
MaxSessions == 1
MaxOptions == 2
NumUsers == 2
NumChats == 1
MaxTime == 1
MaxVotes == 2
MaxCommands == 2
NumSchedulers == 1
MaxRuns == 2

\* tasks running a command or callback handler
Procs == 1..NumProcs
\* tasks running check_and_send_reminders: the cron job and the manual trigger
Schedulers == (NumProcs + 1)..(NumProcs + NumSchedulers)
Tasks == Procs \cup Schedulers
SessionIds == 1..MaxSessions
OptionIds == 1..(MaxSessions * MaxOptions)
Users == 1..NumUsers
\* telegram chat ids; group ids are the store's own autoincrement keys
Chats == {100 + c : c \in 1..NumChats}
Times == 0..MaxTime

NoId == 0
NoTime == -1

VARIABLES
    groups,      \* table groups: group id -> [telegram_chat_id]
    sessions,    \* table sessions: session id -> row
    options,     \* table session_options: option id -> row
    responses,   \* table responses: set of rows
    reminders,   \* table reminders: set of rows
    sent,        \* the reminder messages handed to Telegram, in order
    now,         \* the wall clock (Utc::now), in hours
    pc,          \* per task: the await point it is suspended at
    loc,         \* per task: its local variables
    reply,       \* what the step just taken reported to the user, if anything
    requests     \* number of requests received so far, per kind

\* the kinds of request and how many of each kind the model receives
Kinds == {"schedule", "vote", "command", "run"}
MaxRequests == [schedule |-> MaxSessions, vote |-> MaxVotes, command |-> MaxCommands,
                run |-> MaxRuns]

vars == <<groups, sessions, options, responses, reminders, sent, now, pc, loc, reply,
          requests>>
db == <<groups, sessions, options, responses, reminders>>

\* ---- rows ---------------------------------------------------------------
Session(group_id, created_by) ==
    [group_id |-> group_id, status |-> "active", deadline |-> NoTime,
     created_by |-> created_by]

SessionOption(session_id, datetime) ==
    [session_id |-> session_id, datetime |-> datetime, confirmed |-> FALSE]

Response(session_id, option_id, user_id, response) ==
    [session_id |-> session_id, option_id |-> option_id, user_id |-> user_id,
     response |-> response]

\* the report of a handler that returns: the request and its outcome
Reply(op, sid, user, chat, outcome) ==
    [op |-> op, sid |-> sid, user |-> user, chat |-> chat, outcome |-> outcome]

NoReply == Reply("none", NoId, NoId, NoId, "none")

NoLoc ==
    [op |-> "none", sid |-> NoId, chat |-> NoId, user |-> NoId, gid |-> NoId,
     opts |-> <<>>, best |-> NoId, oid |-> NoId, value |-> "none",
     dl |-> NoTime, dts |-> <<>>, at |-> NoTime, todo |-> <<>>, ivs |-> <<>>]

ResponseValues == {"yes", "no", "maybe"}

\* ---- queries ------------------------------------------------------------
\* Group::find_by_chat_id: the id of the group of a chat, NoId when absent
FindGroupByChatId(chat) ==
    IF \E g \in DOMAIN groups : groups[g].telegram_chat_id = chat
    THEN CHOOSE g \in DOMAIN groups : groups[g].telegram_chat_id = chat
    ELSE NoId

\* the unique index on groups.telegram_chat_id
GroupChatIdTaken(chat) == \E g \in DOMAIN groups : groups[g].telegram_chat_id = chat

\* a responses table without the unique index: no insert is refused
ResponseKeyNeverTaken(sid, oid, user) == FALSE

\* the unique index on responses (session_id, option_id, user_id)
ResponseKeyTaken(sid, oid, user) ==
    \E r \in responses : r.session_id = sid /\ r.option_id = oid /\ r.user_id = user

OptionsOf(sid) == {o \in DOMAIN options : options[o].session_id = sid}

\* SessionOption::find_by_session: the session's options ORDER BY datetime.
\* SQL leaves the order of rows with equal datetime unspecified, so every
\* datetime-ascending arrangement is a possible result.
FindOptionsBySession(sid) ==
    LET S == OptionsOf(sid)
        n == Cardinality(S)
    IN {q \in [1..n -> S] :
          /\ \A i, j \in 1..n : i # j => q[i] # q[j]
          /\ \A i, j \in 1..n : i < j => options[q[i]].datetime <= options[q[j]].datetime}

\* Response::find_by_session
FindResponsesBySession(sid) == {r \in responses : r.session_id = sid}

\* ---- the vote tally of handle_confirm -----------------------------------
YesCount(resp, oid) ==
    Cardinality({r \in resp : r.option_id = oid /\ r.response = "yes"})

\* the loop over the options: state is [best, max]
\* faulty variant of the loop: a later option with an equal count replaces
\* the best one
RECURSIVE TallyFromLastMax(_, _, _, _)
TallyFromLastMax(opts, resp, i, acc) ==
    IF i > Len(opts) THEN acc
    ELSE LET yes_count == YesCount(resp, opts[i])
         IN IF yes_count >= acc.max /\ yes_count > 0
            THEN TallyFromLastMax(opts, resp, i + 1, [best |-> opts[i], max |-> yes_count])
            ELSE TallyFromLastMax(opts, resp, i + 1, acc)

RECURSIVE TallyFrom(_, _, _, _)
TallyFrom(opts, resp, i, acc) ==
    IF i > Len(opts) THEN acc
    ELSE LET yes_count == YesCount(resp, opts[i])
         IN IF yes_count > acc.max
            THEN TallyFrom(opts, resp, i + 1, [best |-> opts[i], max |-> yes_count])
            ELSE TallyFrom(opts, resp, i + 1, acc)

\* faulty variant of the tally: the last option with the highest count wins
TallyLastMax(opts, resp) == TallyFromLastMax(opts, resp, 1, [best |-> NoId, max |-> 0])

\* faulty variant of the tally: the running maximum starts below zero
TallyFromBelowZero(opts, resp) == TallyFrom(opts, resp, 1, [best |-> NoId, max |-> -1])

Tally(opts, resp) == TallyFrom(opts, resp, 1, [best |-> NoId, max |-> 0])

\* ---- initial state: an empty, migrated database -------------------------
Init ==
    /\ groups = << >>
    /\ sessions = << >>
    /\ options = << >>
    /\ responses = {}
    /\ reminders = {}
    /\ sent = << >>
    /\ now = 0
    /\ pc = [p \in Tasks |-> "idle"]
    /\ loc = [p \in Tasks |-> NoLoc]
    /\ reply = NoReply
    /\ requests = [k \in Kinds |-> 0]

\* a handler returns: its task ends and the outcome is reported
Finish(p, l, outcome) ==
    /\ pc' = [pc EXCEPT ![p] = "idle"]
    /\ loc' = [loc EXCEPT ![p] = NoLoc]
    /\ reply' = Reply(l.op, l.sid, l.user, l.chat, outcome)

\* a handler suspends at its next await point
Goto(p, label, l) ==
    /\ pc' = [pc EXCEPT ![p] = label]
    /\ loc' = [loc EXCEPT ![p] = l]
    /\ reply' = NoReply

\* a request of kind k arrives and is given to an idle task
Receive(p, k) ==
    /\ pc[p] = "idle"
    /\ requests[k] < MaxRequests[k]
    /\ requests' = [requests EXCEPT ![k] = @ + 1]

\* the locals of a session-management handler
Command(op, sid, user, chat, dl) ==
    [NoLoc EXCEPT !.op = op, !.sid = sid, !.user = user, !.chat = chat, !.dl = dl]

\* ---- checks shared by the session-management handlers -------------------
\* faulty variant of the checks: the requester is not compared with created_by
AuthorizeAnyUser(sid, user, chat) ==
    IF sid \notin DOMAIN sessions THEN "not_found"
    ELSE IF FindGroupByChatId(chat) = NoId THEN "group_missing"
    ELSE IF sessions[sid].group_id # FindGroupByChatId(chat) THEN "wrong_group"
    ELSE "ok"

\* faulty variant of the checks: the group of the chat is not compared with
\* the group of the session
AuthorizeAnyGroup(sid, user, chat) ==
    IF sid \notin DOMAIN sessions THEN "not_found"
    ELSE IF sessions[sid].created_by # user THEN "permission"
    ELSE IF FindGroupByChatId(chat) = NoId THEN "group_missing"
    ELSE "ok"

\* find the session, check the requester is its creator, find the group of
\* the chat and check the session belongs to it.  The rows read here
\* (created_by, group_id, the group of a chat) never change once written.
Authorize(sid, user, chat) ==
    IF sid \notin DOMAIN sessions THEN "not_found"
    ELSE IF sessions[sid].created_by # user THEN "permission"
    ELSE IF FindGroupByChatId(chat) = NoId THEN "group_missing"
    ELSE IF sessions[sid].group_id # FindGroupByChatId(chat) THEN "wrong_group"
    ELSE "ok"

\* faulty variant of the status check of handle_confirm
ConfirmAllowedUnlessCancelled(status) == status # "cancelled"

\* handle_confirm proceeds only from status "active"
ConfirmAllowed(status) == status = "active"

\* faulty variant of the status check of handle_cancel
CancelAllowedOnlyActive(status) == status = "active"

\* handle_cancel rejects only status "cancelled"
CancelAllowed(status) == status # "cancelled"

\* faulty variant of the deadline check: a deadline equal to the clock passes
DeadlineAllowedNotEarlier(deadline_dt, utc_now) == ~(deadline_dt < utc_now)

\* handle_deadline rejects a deadline that is not in the future
DeadlineAllowed(deadline_dt, utc_now) == ~(deadline_dt <= utc_now)

\* ---- database helper functions of session_management.rs ------------------
\* faulty variant of confirm_session_and_option: the status is not updated
ConfirmOptionOnly(sid, oid) ==
    /\ sessions' = sessions
    /\ options' = [options EXCEPT ![oid].confirmed = TRUE]

\* faulty variant of confirm_session_and_option: the two updates are not one
\* transaction, the second may be lost
ConfirmSessionThenOption(sid, oid) ==
    /\ sessions' = [sessions EXCEPT ![sid].status = "confirmed"]
    /\ \/ options' = [options EXCEPT ![oid].confirmed = TRUE]
       \/ options' = options

\* one transaction: both updates are committed together
ConfirmSessionAndOption(sid, oid) ==
    /\ sessions' = [sessions EXCEPT ![sid].status = "confirmed"]
    /\ options' = [options EXCEPT ![oid].confirmed = TRUE]

\* faulty variant of cancel_session: the confirmed flags are cleared too
CancelSessionAndOptions(sid) ==
    /\ sessions' = [sessions EXCEPT ![sid].status = "cancelled"]
    /\ options' = [o \in DOMAIN options |->
                     IF options[o].session_id = sid
                     THEN [options[o] EXCEPT !.confirmed = FALSE]
                     ELSE options[o]]

\* only the status column is updated
CancelSession(sid) ==
    /\ sessions' = [sessions EXCEPT ![sid].status = "cancelled"]
    /\ UNCHANGED options

SetSessionDeadline(sid, deadline) ==
    sessions' = [sessions EXCEPT ![sid].deadline = deadline]

\* ---- handle_confirm -----------------------------------------------------
\* Session::find_by_id and the checks on the row it returned
ConfirmStart(p) ==
    /\ Receive(p, "command")
    /\ \E sid \in SessionIds, user \in Users, chat \in Chats :
         LET l == Command("confirm", sid, user, chat, NoTime)
             auth == Authorize(sid, user, chat)
         IN \/ Finish(p, l, "persistence")
            \/ IF auth # "ok" THEN Finish(p, l, auth)
               ELSE IF ~ConfirmAllowed(sessions[sid].status) THEN Finish(p, l, "state")
               ELSE Goto(p, "confirm_options", l)
    /\ UNCHANGED <<db, sent, now>>

ConfirmLoadOptions(p) ==
    /\ pc[p] = "confirm_options"
    /\ \E opts \in FindOptionsBySession(loc[p].sid) :
         Goto(p, "confirm_responses", [loc[p] EXCEPT !.opts = opts])
    /\ UNCHANGED <<db, sent, now, requests>>

\* Response::find_by_session, then the tally
ConfirmLoadResponses(p) ==
    /\ pc[p] = "confirm_responses"
    /\ LET t == Tally(loc[p].opts, FindResponsesBySession(loc[p].sid))
       IN IF t.best = NoId THEN Finish(p, loc[p], "no_winner")
          ELSE Goto(p, "confirm_write", [loc[p] EXCEPT !.best = t.best])
    /\ UNCHANGED <<db, sent, now, requests>>

ConfirmWrite(p) ==
    /\ pc[p] = "confirm_write"
    /\ ConfirmSessionAndOption(loc[p].sid, loc[p].best)
    /\ Finish(p, loc[p], "ok")
    /\ UNCHANGED <<groups, responses, reminders, sent, now, requests>>

\* ---- handle_cancel ------------------------------------------------------
CancelStart(p) ==
    /\ Receive(p, "command")
    /\ \E sid \in SessionIds, user \in Users, chat \in Chats :
         LET l == Command("cancel", sid, user, chat, NoTime)
             auth == Authorize(sid, user, chat)
         IN \/ Finish(p, l, "persistence")
            \/ IF auth # "ok" THEN Finish(p, l, auth)
               ELSE IF ~CancelAllowed(sessions[sid].status) THEN Finish(p, l, "state")
               ELSE Goto(p, "cancel_write", l)
    /\ UNCHANGED <<db, sent, now>>

CancelWrite(p) ==
    /\ pc[p] = "cancel_write"
    /\ CancelSession(loc[p].sid)
    /\ Finish(p, loc[p], "ok")
    /\ UNCHANGED <<groups, responses, reminders, sent, now, requests>>

\* ---- handle_deadline ----------------------------------------------------
\* dl is the timestamp the deadline text parses to; it is compared with the
\* clock, then the write is issued
DeadlineStart(p) ==
    /\ Receive(p, "command")
    /\ \E sid \in SessionIds, user \in Users, chat \in Chats, dl \in Times :
         LET l == Command("deadline", sid, user, chat, dl)
             auth == Authorize(sid, user, chat)
         IN \/ Finish(p, l, "persistence")
            \/ IF auth # "ok" THEN Finish(p, l, auth)
               ELSE IF ~DeadlineAllowed(dl, now) THEN Finish(p, l, "validation")
               ELSE Goto(p, "deadline_write", l)
    /\ UNCHANGED <<db, sent, now>>

DeadlineWrite(p) ==
    /\ pc[p] = "deadline_write"
    /\ SetSessionDeadline(loc[p].sid, loc[p].dl)
    /\ Finish(p, loc[p], "ok")
    /\ UNCHANGED <<groups, options, responses, reminders, sent, now, requests>>

\* ---- handle_schedule ----------------------------------------------------
\* sequences of parsed option datetimes, one per validated option text
OptionTimes == UNION {[1..n -> Times] : n \in 1..MaxOptions}

\* ---- utils/validation.rs ------------------------------------------------
MinTitleLen == 3
MaxTitleLen == 100
MaxOptionCount == 10
MaxOptionLen == 50

\* a title after trim(): its number of characters, the number of bytes of
\* its UTF-8 encoding (what str::len returns) and whether it has a line break
Title(chars, bytes, linebreak) ==
    [chars |-> chars, bytes |-> bytes, linebreak |-> linebreak]

\* the bytes one character takes in the titles and option texts drawn
CharWidths == {1, 2}

\* titles that are too short, of the least length (one of them with a line
\* break inside) and too long
Titles ==
    {Title(MinTitleLen - 1, (MinTitleLen - 1) * w, FALSE) : w \in CharWidths}
      \cup {Title(MinTitleLen, MinTitleLen, lb) : lb \in BOOLEAN}
      \cup {Title(MaxTitleLen + 1, MaxTitleLen + 1, FALSE)}

\* validate_session_title
ValidateSessionTitle(title) ==
    /\ title.bytes # 0
    /\ ~(title.bytes < MinTitleLen)
    /\ ~(title.bytes > MaxTitleLen)
    /\ ~title.linebreak

\* one comma-separated entry of the options text, trimmed and not empty: its
\* characters, its bytes, and whether it passes the format checks
Entry(chars, bytes, wellformed) ==
    [chars |-> chars, bytes |-> bytes, wellformed |-> wellformed]

\* entries of the greatest length (one of them ill-formed) and too long
Entries ==
    {Entry(MaxOptionLen, MaxOptionLen, f) : f \in BOOLEAN}
      \cup {Entry(MaxOptionLen + 1, MaxOptionLen + 1, TRUE)}

\* the entries of an options text: none, up to MaxOptions, or one too many
OptionTexts ==
    UNION {[1..n -> Entries] : n \in 0..MaxOptions}
      \cup {[i \in 1..(MaxOptionCount + 1) |-> Entry(MaxOptionLen, MaxOptionLen, TRUE)]}

\* validate_time_options
ValidateTimeOptions(texts) ==
    /\ texts # << >>
    /\ ~(Len(texts) > MaxOptionCount)
    /\ \A i \in 1..Len(texts) :
         ~(texts[i].bytes > MaxOptionLen) /\ texts[i].wellformed

\* input validation, then Group::find_by_chat_id; dts are the datetimes the
\* validated entries parse to
ScheduleCommand(p, chat, user, title, texts) ==
    /\ LET l == [NoLoc EXCEPT !.op = "schedule", !.chat = chat, !.user = user,
                              !.gid = FindGroupByChatId(chat)]
       IN \/ Finish(p, l, "persistence")
          \/ IF ~ValidateSessionTitle(title) THEN Finish(p, l, "validation")
             ELSE IF ~ValidateTimeOptions(texts) THEN Finish(p, l, "validation")
             ELSE \E dts \in [1..Len(texts) -> Times] :
                    IF l.gid = NoId
                    THEN Goto(p, "schedule_group", [l EXCEPT !.dts = dts])
                    ELSE Goto(p, "schedule_session", [l EXCEPT !.dts = dts])
    /\ UNCHANGED <<db, sent, now>>

ScheduleStart(p) ==
    /\ Receive(p, "schedule")
    /\ \E chat \in Chats, user \in Users, title \in Titles, texts \in OptionTexts :
         ScheduleCommand(p, chat, user, title, texts)

\* Group::create; telegram_chat_id is unique, a second insert for the chat fails
ScheduleCreateGroup(p) ==
    /\ pc[p] = "schedule_group"
    /\ IF GroupChatIdTaken(loc[p].chat)
       THEN /\ Finish(p, loc[p], "persistence")
            /\ UNCHANGED groups
       ELSE LET gid == Cardinality(DOMAIN groups) + 1
            IN /\ groups' = groups @@ (gid :> [telegram_chat_id |-> loc[p].chat])
               /\ Goto(p, "schedule_session", [loc[p] EXCEPT !.gid = gid])
    /\ UNCHANGED <<sessions, options, responses, reminders, sent, now, requests>>

\* Session::create
ScheduleCreateSession(p) ==
    /\ pc[p] = "schedule_session"
    /\ LET sid == Cardinality(DOMAIN sessions) + 1
       IN /\ sessions' = sessions @@ (sid :> Session(loc[p].gid, loc[p].user))
          /\ Goto(p, "schedule_option", [loc[p] EXCEPT !.sid = sid])
    /\ UNCHANGED <<groups, options, responses, reminders, sent, now, requests>>

\* one turn of the loop over the validated options: SessionOption::create
ScheduleCreateOption(p) ==
    /\ pc[p] = "schedule_option"
    /\ LET oid == Cardinality(DOMAIN options) + 1
       IN /\ options' = options @@ (oid :> SessionOption(loc[p].sid, Head(loc[p].dts)))
          /\ IF Len(loc[p].dts) = 1 THEN Finish(p, loc[p], "ok")
             ELSE Goto(p, "schedule_option", [loc[p] EXCEPT !.dts = Tail(@)])
    /\ UNCHANGED <<groups, sessions, responses, reminders, sent, now, requests>>

\* ---- callback_handler: Response::upsert ---------------------------------
\* faulty variant of the DELETE: option_id is missing from its WHERE clause
VoteDeleteAllOfUser(p) ==
    /\ Receive(p, "vote")
    /\ \E oid \in DOMAIN options, user \in Users, value \in ResponseValues :
         LET l == [NoLoc EXCEPT !.op = "vote", !.sid = options[oid].session_id,
                                !.oid = oid, !.user = user, !.value = value]
         IN \/ /\ Finish(p, l, "persistence")
               /\ UNCHANGED responses
            \/ /\ responses' = {r \in responses :
                                  ~(r.session_id = l.sid /\ r.user_id = user)}
               /\ Goto(p, "vote_insert", l)
    /\ UNCHANGED <<groups, sessions, options, reminders, sent, now>>

\* the response texts a callback query may carry: the three of the buttons,
\* one of them in capitals, and one that is no response
ResponseTexts == ResponseValues \cup {"YES", "later"}

\* str::to_lowercase on the response texts
LowercaseResponse(text) == IF text = "YES" THEN "yes" ELSE text

\* validate_response_type: the text in lower case is tested, not changed
ValidateResponseType(text) == LowercaseResponse(text) \in ResponseValues

\* the callback data is "session_id:option_id:response"; the response is
\* validated and passed on as received; first the DELETE
VoteDelete(p) ==
    /\ Receive(p, "vote")
    /\ \E oid \in DOMAIN options, user \in Users, value \in ResponseTexts :
         LET l == [NoLoc EXCEPT !.op = "vote", !.sid = options[oid].session_id,
                                !.oid = oid, !.user = user, !.value = value]
         IN \/ /\ ~ValidateResponseType(value)
               /\ Finish(p, l, "validation")
               /\ UNCHANGED responses
            \/ /\ ValidateResponseType(value)
               /\ Finish(p, l, "persistence")
               /\ UNCHANGED responses
            \/ /\ ValidateResponseType(value)
               /\ responses' = {r \in responses :
                                  ~(/\ r.session_id = l.sid
                                    /\ r.option_id = oid
                                    /\ r.user_id = user)}
               /\ Goto(p, "vote_insert", l)
    /\ UNCHANGED <<groups, sessions, options, reminders, sent, now>>

\* then the INSERT; (session_id, option_id, user_id) is unique
VoteInsert(p) ==
    /\ pc[p] = "vote_insert"
    /\ IF ResponseKeyTaken(loc[p].sid, loc[p].oid, loc[p].user)
       THEN /\ Finish(p, loc[p], "persistence")
            /\ UNCHANGED responses
       ELSE /\ responses' = responses \cup
                  {Response(loc[p].sid, loc[p].oid, loc[p].user, loc[p].value)}
            /\ Finish(p, loc[p], "ok")
    /\ UNCHANGED <<groups, sessions, options, reminders, sent, now, requests>>

\* ---- reminder service: check_and_send_reminders ---------------------------
\* the intervals before the session at which a reminder is due, in days
ReminderIntervals == <<14, 7, 3>>

HoursPerDay == 24

Reminder(session_id, days_before, sent_at) ==
    [session_id |-> session_id, days_before |-> days_before, sent_at |-> sent_at]

\* a reminder message handed to Telegram: chat_id is the ChatId it was
\* addressed to, delivered tells whether send_message returned Ok
Notification(session_id, days_before, chat_id, delivered) ==
    [session_id |-> session_id, days_before |-> days_before, chat_id |-> chat_id,
     delivered |-> delivered]

\* faulty variant of Reminder::exists: the offset is not part of the lookup
ReminderExistsAnyOffset(sid, days) ==
    \E r \in reminders : r.session_id = sid

\* Reminder::exists
ReminderExists(sid, days) ==
    \E r \in reminders : r.session_id = sid /\ r.days_before = days

Abs(x) == IF x < 0 THEN -x ELSE x

\* faulty variant of the tolerance window: only the exact hour is due
IsDueExactly(at, session_datetime, days) ==
    at = session_datetime - days * HoursPerDay

\* the run is within one hour of the reminder time of the interval
IsDue(at, session_datetime, days) ==
    Abs(at - (session_datetime - days * HoursPerDay)) <= 1

DueIntervals(at, session_datetime) ==
    SelectSeq(ReminderIntervals, LAMBDA d : IsDue(at, session_datetime, d))

\* the elements of a set of ids, latest first
RECURSIVE Descending(_)
Descending(S) ==
    IF S = {} THEN << >>
    ELSE LET m == CHOOSE x \in S : \A y \in S : y <= x
         IN <<m>> \o Descending(S \ {m})

\* get_confirmed_sessions: WHERE status = 'confirmed' ORDER BY created_at DESC
GetConfirmedSessions ==
    Descending({s \in DOMAIN sessions : sessions[s].status = "confirmed"})

\* the loop over the confirmed sessions goes to its next turn, or the run ends
NextSession(s, l) ==
    IF l.todo = << >> THEN Finish(s, l, "ok")
    ELSE Goto(s, "run_options", [l EXCEPT !.sid = Head(l.todo), !.todo = Tail(l.todo)])

\* the loop over the due intervals of a session goes to its next turn
NextInterval(s, l) ==
    IF l.ivs = << >> THEN NextSession(s, l)
    ELSE Goto(s, "run_exists", l)

\* the clock is read, then get_confirmed_sessions
RunStart(s) ==
    /\ Receive(s, "run")
    /\ LET l == [NoLoc EXCEPT !.op = "run", !.at = now, !.todo = GetConfirmedSessions]
       IN \/ Finish(s, l, "persistence")
          \/ NextSession(s, l)
    /\ UNCHANGED <<db, sent, now>>

\* SessionOption::find_by_session, the first confirmed option, its due intervals
RunLoadOptions(s) ==
    /\ pc[s] = "run_options"
    /\ \E opts \in FindOptionsBySession(loc[s].sid) :
         LET conf == SelectSeq(opts, LAMBDA o : options[o].confirmed)
         IN IF conf = << >> THEN Finish(s, loc[s], "error")
            ELSE NextInterval(s, [loc[s] EXCEPT
                     !.best = Head(conf),
                     !.ivs = DueIntervals(loc[s].at, options[Head(conf)].datetime)])
    /\ UNCHANGED <<db, sent, now, requests>>

\* has_reminder_been_sent for the interval at the head of ivs
RunCheckExists(s) ==
    /\ pc[s] = "run_exists"
    /\ IF ReminderExists(loc[s].sid, Head(loc[s].ivs))
       THEN NextInterval(s, [loc[s] EXCEPT !.ivs = Tail(@)])
       ELSE Goto(s, "run_send", loc[s])
    /\ UNCHANGED <<db, sent, now, requests>>

\* faulty variant of the send step: the marker is written whatever the send
\* returned
RunSendAlwaysMark(s) ==
    /\ pc[s] = "run_send"
    /\ \E delivered \in BOOLEAN :
         sent' = Append(sent, Notification(loc[s].sid, Head(loc[s].ivs),
                                           sessions[loc[s].sid].group_id, delivered))
    /\ Goto(s, "run_mark", loc[s])
    /\ UNCHANGED <<db, now, requests>>

\* send_session_reminder: Telegram accepts the message or the send fails
RunSend(s) ==
    /\ pc[s] = "run_send"
    /\ \/ /\ sent' = Append(sent, Notification(loc[s].sid, Head(loc[s].ivs),
                                               sessions[loc[s].sid].group_id, TRUE))
          /\ Goto(s, "run_mark", loc[s])
       \/ /\ sent' = Append(sent, Notification(loc[s].sid, Head(loc[s].ivs),
                                               sessions[loc[s].sid].group_id, FALSE))
          /\ NextInterval(s, [loc[s] EXCEPT !.ivs = Tail(@)])
    /\ UNCHANGED <<db, now, requests>>

\* faulty variant of the marker write: the session is closed with its last
\* reminder
RunMarkAndClose(s) ==
    /\ pc[s] = "run_mark"
    /\ reminders' = reminders \cup {Reminder(loc[s].sid, Head(loc[s].ivs), now)}
    /\ sessions' = [sessions EXCEPT ![loc[s].sid].status =
                       IF Head(loc[s].ivs) = 3 THEN "completed" ELSE @]
    /\ NextInterval(s, [loc[s] EXCEPT !.ivs = Tail(@)])
    /\ UNCHANGED <<groups, options, responses, sent, now, requests>>

\* mark_reminder_sent: Reminder::create; (session_id, days_before) is unique
RunMark(s) ==
    /\ pc[s] = "run_mark"
    /\ IF ReminderExists(loc[s].sid, Head(loc[s].ivs))
       THEN /\ Finish(s, loc[s], "error")
            /\ UNCHANGED reminders
       ELSE /\ reminders' = reminders \cup {Reminder(loc[s].sid, Head(loc[s].ivs), now)}
            /\ NextInterval(s, [loc[s] EXCEPT !.ivs = Tail(@)])
    /\ UNCHANGED <<groups, sessions, options, responses, sent, now, requests>>

\* ---- environment --------------------------------------------------------
\* a later database call of a running handler fails: every handler logs the
\* error and returns without further writes.  send_session_reminder returns
\* a bool and passes no error on.
StoreError(p) ==
    /\ pc[p] \notin {"idle", "run_send"}
    /\ Finish(p, loc[p], "persistence")
    /\ UNCHANGED <<db, sent, now, requests>>

Tick ==
    /\ now < MaxTime
    /\ now' = now + 1
    /\ reply' = NoReply
    /\ UNCHANGED <<db, sent, pc, loc, requests>>

Next ==
    \/ \E p \in Procs : ScheduleStart(p)
    \/ \E p \in Procs : ScheduleCreateGroup(p)
    \/ \E p \in Procs : ScheduleCreateSession(p)
    \/ \E p \in Procs : ScheduleCreateOption(p)
    \/ \E p \in Procs : VoteDelete(p)
    \/ \E p \in Procs : VoteInsert(p)
    \/ \E p \in Procs : ConfirmStart(p)
    \/ \E p \in Procs : ConfirmLoadOptions(p)
    \/ \E p \in Procs : ConfirmLoadResponses(p)
    \/ \E p \in Procs : ConfirmWrite(p)
    \/ \E p \in Procs : CancelStart(p)
    \/ \E p \in Procs : CancelWrite(p)
    \/ \E p \in Procs : DeadlineStart(p)
    \/ \E p \in Procs : DeadlineWrite(p)
    \/ \E p \in Procs : StoreError(p)

Spec == Init /\ [][Next]_vars

\* the same system with the clock advancing
NextTimed == Next \/ Tick

SpecTimed == Init /\ [][NextTimed]_vars

\* ---- the reminder service next to Confirm and Cancel ---------------------
\* session datetimes, in hours: for each interval one whose reminder time is
\* the first instant of the clock and one whose reminder time the clock never
\* comes within an hour of
EventTimes ==
    {ReminderIntervals[i] * HoursPerDay + t :
        i \in 1..Len(ReminderIntervals), t \in {0, MaxTime + 2}}

\* a database handle_schedule and a vote have filled: one group, one active
\* session with all its options, its creator's "yes" to one of them
InitReminders ==
    /\ \E chat \in Chats : groups = (1 :> [telegram_chat_id |-> chat])
    /\ \E user \in Users, o \in 1..MaxOptions :
         /\ sessions = (1 :> Session(1, user))
         /\ responses = {Response(1, o, user, "yes")}
    /\ \E dts \in [1..MaxOptions -> EventTimes] :
         options = [o \in 1..MaxOptions |-> SessionOption(1, dts[o])]
    /\ reminders = {}
    /\ sent = << >>
    /\ now = 0
    /\ pc = [p \in Tasks |-> "idle"]
    /\ loc = [p \in Tasks |-> NoLoc]
    /\ reply = NoReply
    /\ requests = [k \in Kinds |-> 0]

NextReminders ==
    \/ \E p \in Procs : ConfirmStart(p)
    \/ \E p \in Procs : ConfirmLoadOptions(p)
    \/ \E p \in Procs : ConfirmLoadResponses(p)
    \/ \E p \in Procs : ConfirmWrite(p)
    \/ \E p \in Procs : CancelStart(p)
    \/ \E p \in Procs : CancelWrite(p)
    \/ \E p \in Procs : DeadlineStart(p)
    \/ \E p \in Procs : DeadlineWrite(p)
    \/ \E s \in Schedulers : RunStart(s)
    \/ \E s \in Schedulers : RunLoadOptions(s)
    \/ \E s \in Schedulers : RunCheckExists(s)
    \/ \E s \in Schedulers : RunSend(s)
    \/ \E s \in Schedulers : RunMark(s)
    \/ \E t \in Tasks : StoreError(t)
    \/ Tick

SpecReminders == InitReminders /\ [][NextReminders]_vars

\* ---- the reminder service on a database of confirmed sessions ------------
\* number of confirmed sessions the runs find
MaxConfirmed == 2

\* the instants at which the clock is read: two inside one tolerance window,
\* later ones inside the windows of other intervals
RunTimes == {0, 1, 4 * HoursPerDay, 7 * HoursPerDay}

\* a database in which MaxConfirmed sessions of one group were scheduled,
\* voted on and confirmed: each has its confirmed option and the "yes" that
\* made it win
InitScheduler ==
    /\ \E chat \in Chats : groups = (1 :> [telegram_chat_id |-> chat])
    /\ \E user \in Users :
         /\ sessions = [i \in 1..MaxConfirmed |->
                          [Session(1, user) EXCEPT !.status = "confirmed"]]
         /\ responses = {Response(i, i, user, "yes") : i \in 1..MaxConfirmed}
    /\ \E dts \in [1..MaxConfirmed -> EventTimes] :
         options = [i \in 1..MaxConfirmed |->
                      [SessionOption(i, dts[i]) EXCEPT !.confirmed = TRUE]]
    /\ reminders = {}
    /\ sent = << >>
    /\ now = 0
    /\ pc = [p \in Tasks |-> "idle"]
    /\ loc = [p \in Tasks |-> NoLoc]
    /\ reply = NoReply
    /\ requests = [k \in Kinds |-> 0]

\* time passes between two readings of the clock
Elapse ==
    /\ \E t \in RunTimes : t > now /\ now' = t
    /\ reply' = NoReply
    /\ UNCHANGED <<db, sent, pc, loc, requests>>

\* the cron job and the on-demand check start runs independently of each
\* other: runs overlap
NextScheduler ==
    \/ \E s \in Tasks : RunStart(s)
    \/ \E s \in Tasks : RunLoadOptions(s)
    \/ \E s \in Tasks : RunCheckExists(s)
    \/ \E s \in Tasks : RunSend(s)
    \/ \E s \in Tasks : RunMark(s)
    \/ \E s \in Tasks : StoreError(s)
    \/ Elapse

SpecScheduler == InitScheduler /\ [][NextScheduler]_vars

\* no run is in progress
NoRunInProgress == \A t \in Tasks : pc[t] = "idle"

\* runs that follow one another: a run starts when the previous one returned
RunStartSeq(s) == NoRunInProgress /\ RunStart(s)

NextSchedulerSeq ==
    \/ \E s \in Tasks : RunStartSeq(s)
    \/ \E s \in Tasks : RunLoadOptions(s)
    \/ \E s \in Tasks : RunCheckExists(s)
    \/ \E s \in Tasks : RunSend(s)
    \/ \E s \in Tasks : RunMark(s)
    \/ \E s \in Tasks : StoreError(s)
    \/ Elapse

SpecSchedulerSeq == InitScheduler /\ [][NextSchedulerSeq]_vars

\* ---- the cron job when no database call fails ----------------------------
\* the runs of the cron job, whose sends may fail; every run that has started
\* goes on until it returns, and ticks keep coming while MaxRuns allows
NextRetry ==
    \/ \E s \in Schedulers : RunStart(s)
    \/ \E s \in Schedulers : RunLoadOptions(s)
    \/ \E s \in Schedulers : RunCheckExists(s)
    \/ \E s \in Schedulers : RunSend(s)
    \/ \E s \in Schedulers : RunMark(s)
    \/ Elapse

FairRetry ==
    \A s \in Schedulers :
      /\ WF_vars(RunStart(s))
      /\ WF_vars(RunLoadOptions(s))
      /\ WF_vars(RunCheckExists(s))
      /\ WF_vars(RunSend(s))
      /\ WF_vars(RunMark(s))

SpecRetry == InitScheduler /\ [][NextRetry]_vars /\ FairRetry

\* ---- two session-creating commands ----------------------------------------
\* a first command has passed validation and found no group for its chat;
\* requests counts the commands received after it
InitSchedule ==
    /\ groups = << >>
    /\ sessions = << >>
    /\ options = << >>
    /\ responses = {}
    /\ reminders = {}
    /\ sent = << >>
    /\ now = 0
    /\ \E chat \in Chats, user \in Users, dts \in OptionTimes :
         /\ pc = [p \in Tasks |-> IF p = 1 THEN "schedule_group" ELSE "idle"]
         /\ loc = [p \in Tasks |->
                     IF p = 1
                     THEN [NoLoc EXCEPT !.op = "schedule", !.chat = chat,
                                        !.user = user, !.dts = dts]
                     ELSE NoLoc]
    /\ reply = NoReply
    /\ requests = [k \in Kinds |-> 0]

NextSchedule ==
    \/ \E p \in Procs : ScheduleStart(p)
    \/ \E p \in Procs : ScheduleCreateGroup(p)
    \/ \E p \in Procs : ScheduleCreateSession(p)
    \/ \E p \in Procs : ScheduleCreateOption(p)
    \/ \E p \in Procs : StoreError(p)

SpecSchedule == InitSchedule /\ [][NextSchedule]_vars

\* ---- utils/datetime.rs: parse_datetime -----------------------------------
\* A text is the sequence of its characters; the texts drawn are ASCII, so a
\* byte position of the source is a position in the sequence.  A timestamp is
\* a number of minutes since 1970-01-01T00:00Z; seconds are not modelled.
MinutesPerHour == 60
MinutesPerDay == HoursPerDay * MinutesPerHour

UpperCase == <<"A", "B", "C", "D", "E", "F", "G", "H", "I", "J", "K", "L", "M", "N", "O", "P", "Q", "R", "S", "T", "U", "V", "W", "X", "Y", "Z">>
LowerCase == <<"a", "b", "c", "d", "e", "f", "g", "h", "i", "j", "k", "l", "m", "n", "o", "p", "q", "r", "s", "t", "u", "v", "w", "x", "y", "z">>
Digits == <<"0", "1", "2", "3", "4", "5", "6", "7", "8", "9">>

DigitSet == {Digits[i] : i \in 1..Len(Digits)}

\* a result of a parsing function: Ok(value), Err, or a panic
ParseOk(v) == [outcome |-> "ok", value |-> v]
ParseErr == [outcome |-> "err", value |-> NoTime]
ParsePanic == [outcome |-> "panic", value |-> NoTime]

\* str::to_lowercase
ToLower(c) ==
    IF \E i \in 1..Len(UpperCase) : UpperCase[i] = c
    THEN LowerCase[CHOOSE i \in 1..Len(UpperCase) : UpperCase[i] = c]
    ELSE c

ToLowercase(t) == [i \in 1..Len(t) |-> ToLower(t[i])]

\* str::trim
RECURSIVE TrimStart(_)
TrimStart(t) == IF t # << >> /\ Head(t) = " " THEN TrimStart(Tail(t)) ELSE t

RECURSIVE TrimEnd(_)
TrimEnd(t) ==
    IF t # << >> /\ t[Len(t)] = " " THEN TrimEnd(SubSeq(t, 1, Len(t) - 1)) ELSE t

Trim(t) == TrimEnd(TrimStart(t))

\* str::find(char): the byte position of the first occurrence, -1 for None
Find(t, ch) ==
    IF \E i \in 1..Len(t) : t[i] = ch
    THEN (CHOOSE i \in 1..Len(t) : t[i] = ch /\ \A j \in 1..(i - 1) : t[j] # ch) - 1
    ELSE -1

\* str::split(char): the pieces between the separators, empty ones included
RECURSIVE Split(_, _)
Split(t, sep) ==
    IF Find(t, sep) = -1 THEN <<t>>
    ELSE <<SubSeq(t, 1, Find(t, sep))>>
           \o Split(SubSeq(t, Find(t, sep) + 2, Len(t)), sep)

\* str::split_whitespace
SplitWhitespace(t) == SelectSeq(Split(t, " "), LAMBDA w : w # << >>)

\* str::contains(&str)
Contains(t, word) ==
    \E i \in 0..(Len(t) - Len(word)) : SubSeq(t, i + 1, i + Len(word)) = word

\* &input[from..to]
Slice(t, from, to) == SubSeq(t, from + 1, to)

\* str::parse::<u32>: decimal digits after an optional plus sign; -1 for Err
RECURSIVE NumberValue(_)
NumberValue(t) ==
    IF t = << >> THEN 0
    ELSE NumberValue(SubSeq(t, 1, Len(t) - 1)) * 10
           + (CHOOSE i \in 1..Len(Digits) : Digits[i] = t[Len(t)]) - 1

ParseNumber(t) ==
    LET digits == IF t # << >> /\ Head(t) = "+" THEN Tail(t) ELSE t
    IN IF digits # << >> /\ \A i \in 1..Len(digits) : digits[i] \in DigitSet
       THEN NumberValue(digits)
       ELSE -1

\* the two characters before and after the separator at byte position pos;
\* the slice after it is taken without a test of the length of the input
TimeAt(t, pos) ==
    IF pos + 3 > Len(t) THEN [kind |-> "panic", hour |-> 0, minute |-> 0]
    ELSE LET hour == ParseNumber(Slice(t, IF pos < 2 THEN 0 ELSE pos - 2, pos))
             minute == ParseNumber(Slice(t, pos + 1, pos + 3))
         IN IF hour >= 0 /\ minute >= 0 /\ hour < 24 /\ minute < 60
            THEN [kind |-> "some", hour |-> hour, minute |-> minute]
            ELSE [kind |-> "none", hour |-> 0, minute |-> 0]

\* extract_time_24h: the first ':' is tried, then the first '.'
ExtractTime24h(t) ==
    LET atColon == IF Find(t, ":") = -1
                   THEN [kind |-> "none", hour |-> 0, minute |-> 0]
                   ELSE TimeAt(t, Find(t, ":"))
    IN IF atColon.kind # "none" THEN atColon
       ELSE IF Find(t, ".") = -1 THEN atColon
       ELSE TimeAt(t, Find(t, "."))

\* chrono: the calendar
IsLeapYear(y) == (y % 4 = 0 /\ y % 100 # 0) \/ y % 400 = 0

DaysInMonth(y, m) ==
    IF m = 2 THEN (IF IsLeapYear(y) THEN 29 ELSE 28)
    ELSE IF m \in {4, 6, 9, 11} THEN 30 ELSE 31

\* the number of days from 1970-01-01 to the date
DaysFromCivil(y, m, d) ==
    LET yy == IF m <= 2 THEN y - 1 ELSE y
        era == yy \div 400
        yoe == yy - era * 400
        doy == (153 * (IF m > 2 THEN m - 3 ELSE m + 9) + 2) \div 5 + d - 1
        doe == yoe * 365 + yoe \div 4 - yoe \div 100 + doy
    IN era * 146097 + doe - 719468

\* NaiveDate::from_ymd_opt(..).and_hms_opt(.., 0) as a UTC timestamp
Timestamp(y, m, d, hour, minute) ==
    DaysFromCivil(y, m, d) * MinutesPerDay + hour * MinutesPerHour + minute

\* date_naive() + Duration::days(days), at hour:minute
DaysAhead(utc_now, days, hour, minute) ==
    (utc_now \div MinutesPerDay + days) * MinutesPerDay
      + hour * MinutesPerHour + minute

\* weekday().number_from_monday(); 1970-01-01 was a Thursday
NumberFromMonday(utc_now) == ((utc_now \div MinutesPerDay + 3) % 7) + 1

\* parse_european_date_format
ParseEuropeanDateFormat(input) ==
    LET parts == SplitWhitespace(Trim(input))
    IN IF Len(parts) < 2 THEN ParseErr
       ELSE LET comps == Split(parts[1], ".")
            IN IF Len(comps) # 3 THEN ParseErr
               ELSE LET day == ParseNumber(comps[1])
                        month == ParseNumber(comps[2])
                        year2 == ParseNumber(comps[3])
                        year == IF Len(comps[3]) = 2
                                THEN (IF year2 < 0 THEN -1
                                      ELSE IF year2 <= 30 THEN 2000 + year2
                                      ELSE 1900 + year2)
                                ELSE IF Len(comps[3]) = 4 THEN year2
                                ELSE -1
                        time == ExtractTime24h(parts[2])
                    IN IF day < 0 \/ month < 0 \/ year < 0 THEN ParseErr
                       ELSE IF time.kind = "panic" THEN ParsePanic
                       ELSE IF time.kind = "none" THEN ParseErr
                       ELSE IF day < 1 \/ day > 31 \/ month < 1 \/ month > 12
                         THEN ParseErr
                       ELSE IF month = 2 /\ day > 29 THEN ParseErr
                       ELSE IF month \in {4, 6, 9, 11} /\ day > 30 THEN ParseErr
                       ELSE IF day > DaysInMonth(year, month) THEN ParseErr
                       ELSE ParseOk(Timestamp(year, month, day,
                                              time.hour, time.minute))

WeekdayNames ==
    <<[target |-> 1,
       names |-> {<<"m", "o", "n", "d", "a", "y">>,
                  <<"m", "a-ring", "n", "d", "a", "g">>,
                  <<"l", "u", "n", "d", "i">>}],
      [target |-> 2,
       names |-> {<<"t", "u", "e", "s", "d", "a", "y">>,
                  <<"t", "i", "s", "d", "a", "g">>,
                  <<"m", "a", "r", "d", "i">>}],
      [target |-> 3,
       names |-> {<<"w", "e", "d", "n", "e", "s", "d", "a", "y">>,
                  <<"o", "n", "s", "d", "a", "g">>,
                  <<"m", "e", "r", "c", "r", "e", "d", "i">>}],
      [target |-> 4,
       names |-> {<<"t", "h", "u", "r", "s", "d", "a", "y">>,
                  <<"t", "o", "r", "s", "d", "a", "g">>,
                  <<"j", "e", "u", "d", "i">>}],
      [target |-> 5,
       names |-> {<<"f", "r", "i", "d", "a", "y">>,
                  <<"f", "r", "e", "d", "a", "g">>,
                  <<"v", "e", "n", "d", "r", "e", "d", "i">>}],
      [target |-> 6,
       names |-> {<<"s", "a", "t", "u", "r", "d", "a", "y">>,
                  <<"l", "o-umlaut", "r", "d", "a", "g">>,
                  <<"s", "a", "m", "e", "d", "i">>}],
      [target |-> 0,
       names |-> {<<"s", "u", "n", "d", "a", "y">>,
                  <<"s", "o-umlaut", "n", "d", "a", "g">>,
                  <<"d", "i", "m", "a", "n", "c", "h", "e">>}]>>

\* the times of day looked for when extract_time_24h found none
FixedTimes ==
    <<[texts |-> {<<"1", "9", ":", "0", "0">>, <<"1", "9", ".", "0", "0">>}, hour |-> 19],
      [texts |-> {<<"1", "4", ":", "0", "0">>, <<"1", "4", ".", "0", "0">>}, hour |-> 14],
      [texts |-> {<<"1", "8", ":", "0", "0">>, <<"1", "8", ".", "0", "0">>}, hour |-> 18],
      [texts |-> {<<"2", "0", ":", "0", "0">>, <<"2", "0", ".", "0", "0">>}, hour |-> 20],
      [texts |-> {<<"1", "5", ":", "3", "0">>, <<"1", "5", ".", "3", "0">>}, hour |-> 15]>>

\* the entries of a list of alternatives that the text contains
Matching(t, list, field) ==
    SelectSeq(list, LAMBDA e : \E w \in e[field] : Contains(t, w))

\* days_until_weekday that always goes through the end of the week
DaysUntilWeekdayNextWeek(target_weekday, utc_now) ==
    LET today == NumberFromMonday(utc_now)
        target == IF target_weekday = 0 THEN 7 ELSE target_weekday
    IN 7 - today + target

\* days_until_weekday without the week added when the day named is today
DaysUntilWeekdaySameDay(target_weekday, utc_now) ==
    LET today == NumberFromMonday(utc_now)
        target == IF target_weekday = 0 THEN 7 ELSE target_weekday
    IN IF target >= today THEN target - today ELSE 7 - today + target

\* days_until_weekday
DaysUntilWeekday(target_weekday, utc_now) ==
    LET today == NumberFromMonday(utc_now)
        target == IF target_weekday = 0 THEN 7 ELSE target_weekday
    IN IF target > today THEN target - today ELSE 7 - today + target

\* parse_natural_format: it has no Err result
ParseNaturalFormat(input, utc_now) ==
    LET input_lower == ToLowercase(input)
        time == ExtractTime24h(input_lower)
        fixed == Matching(input_lower, FixedTimes, "texts")
        time_hour == IF time.kind = "some" THEN time.hour
                     ELSE IF fixed # << >> THEN Head(fixed).hour
                     ELSE 19
        time_minute == IF time.kind = "some" THEN time.minute
                       ELSE IF \E w \in FixedTimes[5].texts : Contains(input_lower, w)
                         THEN 30
                       ELSE 0
        named == Matching(input_lower, WeekdayNames, "names")
        days_ahead == IF named # << >>
                      THEN DaysUntilWeekday(Head(named).target, utc_now)
                      ELSE 7
    IN IF time.kind = "panic" THEN ParsePanic
       ELSE ParseOk(DaysAhead(utc_now, days_ahead, time_hour, time_minute))

\* input.parse::<DateTime<Utc>>(): "YYYY-MM-DDTHH:MM:SSZ"
ParseIso(input) ==
    IF /\ Len(input) = 20
       /\ input[5] = "-" /\ input[8] = "-" /\ input[11] = "T"
       /\ input[14] = ":" /\ input[17] = ":" /\ input[20] = "Z"
    THEN LET year == ParseNumber(SubSeq(input, 1, 4))
             month == ParseNumber(SubSeq(input, 6, 7))
             day == ParseNumber(SubSeq(input, 9, 10))
             hour == ParseNumber(SubSeq(input, 12, 13))
             minute == ParseNumber(SubSeq(input, 15, 16))
             second == ParseNumber(SubSeq(input, 18, 19))
         IN IF /\ year >= 0 /\ month \in 1..12 /\ day >= 1
               /\ day <= DaysInMonth(year, month)
               /\ hour \in 0..23 /\ minute \in 0..59 /\ second \in 0..59
            THEN ParseOk(Timestamp(year, month, day, hour, minute))
            ELSE ParseErr
    ELSE ParseErr

\* parse_datetime
ParseDatetime(text, utc_now) ==
    LET input == Trim(text)
        european == ParseEuropeanDateFormat(input)
        natural == ParseNaturalFormat(input, utc_now)
        iso == ParseIso(input)
    IN IF european.outcome # "err" THEN european
       ELSE IF natural.outcome # "err" THEN natural
       ELSE IF iso.outcome # "err" THEN iso
       ELSE ParseOk(DaysAhead(utc_now, 1, 19, 0))

\* the texts given to parse_datetime
ParseInputs ==
    {<<"g", "a", "r", "b", "a", "g", "e">>,
     <<"F", "r", "i", "d", "a", "y">>,
     <<"f", "r", "i", "d", "a", "y", " ", "1", "9", ":", "0", "0">>,
     <<"m", "o", "n", "d", "a", "y", " ", "1", "4", ".", "4", "5">>,
     <<"s", "u", "n", "d", "a", "y", " ", "9", ":", "3", "0">>,
     <<"1", "5", ".", "0", "8", ".", "2", "5", " ", "1", "9", ":", "0", "0">>,
     <<"0", "1", ".", "1", "2", ".", "2", "0", "2", "7", " ", "1", "4", ":", "3", "0">>,
     <<"0", "1", ".", "0", "1", ".", "9", "9", " ", "1", "2", ":", "0", "0">>,
     <<"2", "9", ".", "0", "2", ".", "2", "5", " ", "1", "0", ":", "0", "0">>,
     <<"2", "0", "2", "7", "-", "1", "2", "-", "0", "1", "T", "1", "9", ":", "3", "0", ":", "0", "0", "Z">>,
     <<"f", "r", "i", "d", "a", "y", " ", "1", "9", ":">>,
     <<"f", "r", "i", "d", "a", "y", ".">>,
     <<"1", "5", ".", "0", "8", ".", "2", "7", " ", "1", "9", ":">>,
     <<" ", "s", "a", "t", "u", "r", "d", "a", "y", " ", "2", "0", ":", "1", "5", " ">>,
     <<>>}

\* the instants of the calls: a Sunday morning and a Friday evening
ParseClocks == {Timestamp(2026, 11, 1, 8, 0), Timestamp(2026, 11, 6, 20, 30)}

InitParse ==
    /\ groups = << >>
    /\ sessions = << >>
    /\ options = << >>
    /\ responses = {}
    /\ reminders = {}
    /\ sent = << >>
    /\ now \in ParseClocks
    /\ pc = [p \in Tasks |-> "idle"]
    /\ loc = [p \in Tasks |-> NoLoc]
    /\ reply = NoReply
    /\ requests = [k \in Kinds |-> 0]

\* a handler calls parse_datetime on a text of its command
ParseText(p) ==
    /\ Receive(p, "command")
    /\ \E text \in ParseInputs :
         LET r == ParseDatetime(text, now)
         IN /\ pc' = [pc EXCEPT ![p] = "parsed"]
            /\ loc' = [loc EXCEPT ![p] = [NoLoc EXCEPT !.op = "parse",
                                                       !.value = text,
                                                       !.dl = r.value]]
            /\ reply' = Reply("parse", NoId, NoId, NoId, r.outcome)
    /\ UNCHANGED <<db, sent, now>>

\* the handler is done with the timestamp
ParseReturn(p) ==
    /\ pc[p] = "parsed"
    /\ pc' = [pc EXCEPT ![p] = "idle"]
    /\ loc' = [loc EXCEPT ![p] = NoLoc]
    /\ reply' = NoReply
    /\ UNCHANGED <<db, sent, now, requests>>

NextParse ==
    \/ \E p \in Procs : ParseText(p)
    \/ \E p \in Procs : ParseReturn(p)

SpecParse == InitParse /\ [][NextParse]_vars

\* ---- utils/validation.rs: validate_telegram_chat_id ------------------------
\* A chat id is an i64.  It is written as a sign and a magnitude of
\* millions * 10^6 + units, so that the order of the 64-bit values is kept.
ChatId(negative, millions, units) ==
    [negative |-> negative, millions |-> millions, units |-> units]

\* the magnitude of id is greater than millions * 10^6 + units
MagnitudeAbove(id, millions, units) ==
    id.millions > millions \/ (id.millions = millions /\ id.units > units)

\* chat_id == 0, chat_id > 2147483647, chat_id < -2000000000000
ValidateTelegramChatId(chat_id) ==
    IF chat_id.millions = 0 /\ chat_id.units = 0 THEN FALSE
    ELSE IF ~chat_id.negative /\ MagnitudeAbove(chat_id, 2147, 483647) THEN FALSE
    ELSE IF chat_id.negative /\ MagnitudeAbove(chat_id, 2000000, 0) THEN FALSE
    ELSE TRUE

\* the chat ids of the messages received: the limits of the ranges of users,
\* groups and supergroups, and their neighbours
ChatIdInputs ==
    {ChatId(FALSE, 0, 0), ChatId(FALSE, 0, 1), ChatId(FALSE, 2147, 483647),
     ChatId(FALSE, 2147, 483648), ChatId(TRUE, 0, 1), ChatId(TRUE, 0, 100),
     ChatId(TRUE, 999, 999999), ChatId(TRUE, 1000, 0), ChatId(TRUE, 2147, 483648),
     ChatId(TRUE, 1000000, 0), ChatId(TRUE, 1002147, 483648),
     ChatId(TRUE, 2000000, 0), ChatId(TRUE, 2000000, 1)}

\* handle_settings up to the validation of the chat id
SettingsStart(p) ==
    /\ Receive(p, "command")
    /\ \E chat_id \in ChatIdInputs :
         LET l == [NoLoc EXCEPT !.op = "settings", !.value = chat_id]
         IN IF ValidateTelegramChatId(chat_id)
            THEN Goto(p, "settings_group", l)
            ELSE Finish(p, l, "validation")
    /\ UNCHANGED <<db, sent, now>>

\* handle_settings after the validation: the group is looked up and shown
SettingsShow(p) ==
    /\ pc[p] = "settings_group"
    /\ Finish(p, loc[p], "ok")
    /\ UNCHANGED <<db, sent, now, requests>>

NextSettings ==
    \/ \E p \in Procs : SettingsStart(p)
    \/ \E p \in Procs : SettingsShow(p)

InitSettings ==
    /\ groups = << >>
    /\ sessions = << >>
    /\ options = << >>
    /\ responses = {}
    /\ reminders = {}
    /\ sent = << >>
    /\ now = 0
    /\ pc = [p \in Tasks |-> "idle"]
    /\ loc = [p \in Tasks |-> NoLoc]
    /\ reply = NoReply
    /\ requests = [k \in Kinds |-> 0]

SpecSettings == InitSettings /\ [][NextSettings]_vars

\* ---- the tolerance window of check_and_send_reminders, in minutes ---------
\* Duration::num_hours: the whole hours of a difference in minutes, rounded
\* towards zero
NumHours(minutes) ==
    IF minutes >= 0 THEN minutes \div MinutesPerHour
    ELSE -((-minutes) \div MinutesPerHour)

\* (now - reminder_time).num_hours().abs() <= 1, clock and session time in
\* minutes
IsDueAt(at, session_datetime, days) ==
    Abs(NumHours(at - (session_datetime - days * MinutesPerDay))) <= 1

\* RunLoadOptions with the clock and the session times in minutes
RunLoadOptionsAt(s) ==
    /\ pc[s] = "run_options"
    /\ \E opts \in FindOptionsBySession(loc[s].sid) :
         LET conf == SelectSeq(opts, LAMBDA o : options[o].confirmed)
         IN IF conf = << >> THEN Finish(s, loc[s], "error")
            ELSE NextInterval(s, [loc[s] EXCEPT
                     !.best = Head(conf),
                     !.ivs = SelectSeq(ReminderIntervals, LAMBDA d :
                               IsDueAt(loc[s].at, options[Head(conf)].datetime, d))])
    /\ UNCHANGED <<db, sent, now, requests>>

\* instants of the clock in minutes, around a reminder time at minute 120:
\* two hours, 119, 61, 60 and 0 minutes before it and as many after it
WindowTimes == {0, 1, 59, 60, 120, 180, 181, 239, 240}

\* session datetimes in minutes whose reminder time for one of the intervals
\* is minute 120
WindowEvents ==
    {ReminderIntervals[i] * MinutesPerDay + 120 : i \in 1..Len(ReminderIntervals)}

\* a database of confirmed sessions as in InitScheduler, times in minutes
InitWindow ==
    /\ \E chat \in Chats : groups = (1 :> [telegram_chat_id |-> chat])
    /\ \E user \in Users :
         /\ sessions = [i \in 1..MaxConfirmed |->
                          [Session(1, user) EXCEPT !.status = "confirmed"]]
         /\ responses = {Response(i, i, user, "yes") : i \in 1..MaxConfirmed}
    /\ \E dts \in [1..MaxConfirmed -> WindowEvents] :
         options = [i \in 1..MaxConfirmed |->
                      [SessionOption(i, dts[i]) EXCEPT !.confirmed = TRUE]]
    /\ reminders = {}
    /\ sent = << >>
    /\ now \in WindowTimes
    /\ pc = [p \in Tasks |-> "idle"]
    /\ loc = [p \in Tasks |-> NoLoc]
    /\ reply = NoReply
    /\ requests = [k \in Kinds |-> 0]

\* minutes pass between two readings of the clock
ElapseMinutes ==
    /\ \E t \in WindowTimes : t > now /\ now' = t
    /\ reply' = NoReply
    /\ UNCHANGED <<db, sent, pc, loc, requests>>

NextWindow ==
    \/ \E s \in Schedulers : RunStartSeq(s)
    \/ \E s \in Schedulers : RunLoadOptionsAt(s)
    \/ \E s \in Schedulers : RunCheckExists(s)
    \/ \E s \in Schedulers : RunSend(s)
    \/ \E s \in Schedulers : RunMark(s)
    \/ \E s \in Schedulers : StoreError(s)
    \/ ElapseMinutes

SpecWindow == InitWindow /\ [][NextWindow]_vars

\* ---- the reminder service on a database with a data-integrity fault ------
\* the database of InitScheduler in which at least one confirmed session has
\* no option with confirmed = true: the state check_and_send_reminders tests
\* for with "No confirmed option found for confirmed session"
InitFault ==
    /\ \E chat \in Chats : groups = (1 :> [telegram_chat_id |-> chat])
    /\ \E user \in Users :
         /\ sessions = [i \in 1..MaxConfirmed |->
                          [Session(1, user) EXCEPT !.status = "confirmed"]]
         /\ responses = {Response(i, i, user, "yes") : i \in 1..MaxConfirmed}
    /\ \E dts \in [1..MaxConfirmed -> EventTimes],
          flags \in [1..MaxConfirmed -> BOOLEAN] :
         /\ \E i \in 1..MaxConfirmed : ~flags[i]
         /\ options = [i \in 1..MaxConfirmed |->
                         [SessionOption(i, dts[i]) EXCEPT !.confirmed = flags[i]]]
    /\ reminders = {}
    /\ sent = << >>
    /\ now = 0
    /\ pc = [p \in Tasks |-> "idle"]
    /\ loc = [p \in Tasks |-> NoLoc]
    /\ reply = NoReply
    /\ requests = [k \in Kinds |-> 0]

SpecFault == InitFault /\ [][NextSchedulerSeq]_vars

\* ---- parse_datetime on the names of the weekdays ---------------------------
\* the instants of the calls: 08:00 on each day of a week, Monday to Sunday
WeekClocks == {Timestamp(2026, 11, d, 8, 0) : d \in 2..8}

InitWeekday ==
    /\ groups = << >>
    /\ sessions = << >>
    /\ options = << >>
    /\ responses = {}
    /\ reminders = {}
    /\ sent = << >>
    /\ now \in WeekClocks
    /\ pc = [p \in Tasks |-> "idle"]
    /\ loc = [p \in Tasks |-> NoLoc]
    /\ reply = NoReply
    /\ requests = [k \in Kinds |-> 0]

\* a handler calls parse_datetime on a text that is the name of a weekday in
\* one of the three languages
ParseWeekdayName(p) ==
    /\ Receive(p, "command")
    /\ \E text \in UNION {WeekdayNames[i].names : i \in 1..Len(WeekdayNames)} :
         LET r == ParseDatetime(text, now)
         IN /\ pc' = [pc EXCEPT ![p] = "parsed"]
            /\ loc' = [loc EXCEPT ![p] = [NoLoc EXCEPT !.op = "parse",
                                                       !.value = text,
                                                       !.dl = r.value]]
            /\ reply' = Reply("parse", NoId, NoId, NoId, r.outcome)
    /\ UNCHANGED <<db, sent, now>>

NextWeekday ==
    \/ \E p \in Procs : ParseWeekdayName(p)
    \/ \E p \in Procs : ParseReturn(p)

SpecWeekday == InitWeekday /\ [][NextWeekday]_vars

\* ---- handle_list -----------------------------------------------------------
\* Group::find_by_chat_id
ListStart(p) ==
    /\ Receive(p, "command")
    /\ \E chat \in Chats, user \in Users :
         LET l == [NoLoc EXCEPT !.op = "list", !.chat = chat, !.user = user,
                                !.gid = FindGroupByChatId(chat)]
         IN \/ Finish(p, l, "persistence")
            \/ IF l.gid = NoId THEN Finish(p, l, "validation")
               ELSE Goto(p, "list_sessions", l)
    /\ UNCHANGED <<db, sent, now>>

\* get_sessions_by_group under its timeout: WHERE group_id = ? AND status IN
\* ('active', 'confirmed') ORDER BY created_at DESC
ListSessions(p) ==
    /\ pc[p] = "list_sessions"
    /\ LET found == Descending({s \in DOMAIN sessions :
                                  /\ sessions[s].group_id = loc[p].gid
                                  /\ sessions[s].status \in {"active", "confirmed"}})
       IN \/ Finish(p, loc[p], "persistence")
          \/ Finish(p, loc[p], "timeout")
          \/ IF found = << >> THEN Finish(p, loc[p], "empty")
             ELSE Goto(p, "list_options", [loc[p] EXCEPT !.todo = found])
    /\ UNCHANGED <<db, sent, now, requests>>

\* SessionOption::find_by_sessions under its timeout: an error and a timeout
\* both end the request with an error message
ListOptions(p) ==
    /\ pc[p] = "list_options"
    /\ \/ Finish(p, loc[p], "persistence")
       \/ Finish(p, loc[p], "timeout")
       \/ Goto(p, "list_responses", loc[p])
    /\ UNCHANGED <<db, sent, now, requests>>

\* Response::find_by_sessions under its timeout, then the list is sent: with
\* the votes counted, or with no response at all after an error or a timeout.
\* The sessions listed are reported in the sid field of the reply.
ListResponses(p) ==
    /\ pc[p] = "list_responses"
    /\ \/ Finish(p, [loc[p] EXCEPT !.sid = loc[p].todo], "ok")
       \/ Finish(p, [loc[p] EXCEPT !.sid = loc[p].todo], "no_votes")
    /\ UNCHANGED <<db, sent, now, requests>>

\* a database with one group and MaxConfirmed sessions of any status, each
\* with one option and a "yes" of its creator
InitList ==
    /\ \E chat \in Chats : groups = (1 :> [telegram_chat_id |-> chat])
    /\ \E user \in Users :
         /\ \E st \in [1..MaxConfirmed -> {"active", "confirmed", "cancelled"}] :
              /\ sessions = [i \in 1..MaxConfirmed |->
                               [Session(1, user) EXCEPT !.status = st[i]]]
              /\ options = [i \in 1..MaxConfirmed |->
                              [SessionOption(i, 0) EXCEPT
                                 !.confirmed = (st[i] = "confirmed")]]
         /\ responses = {Response(i, i, user, "yes") : i \in 1..MaxConfirmed}
    /\ reminders = {}
    /\ sent = << >>
    /\ now = 0
    /\ pc = [p \in Tasks |-> "idle"]
    /\ loc = [p \in Tasks |-> NoLoc]
    /\ reply = NoReply
    /\ requests = [k \in Kinds |-> 0]

NextList ==
    \/ \E p \in Procs : ListStart(p)
    \/ \E p \in Procs : ListSessions(p)
    \/ \E p \in Procs : ListOptions(p)
    \/ \E p \in Procs : ListResponses(p)

SpecList == InitList /\ [][NextList]_vars

\* ---- the cron job "0 0 9,18 * * *" --------------------------------------
\* number of days the cron job is followed
CronDays == 14

\* the instants, in hours, at which the job fires: 09:00 and 18:00 UTC
CronTimes == {d * HoursPerDay + h : d \in 0..(CronDays - 1), h \in {9, 18}}

\* confirmed sessions as in InitScheduler at midnight of day 0; each confirmed
\* time is on day 15, at any hour of the day
InitCron ==
    /\ \E chat \in Chats : groups = (1 :> [telegram_chat_id |-> chat])
    /\ \E user \in Users :
         /\ sessions = [i \in 1..MaxConfirmed |->
                          [Session(1, user) EXCEPT !.status = "confirmed"]]
         /\ responses = {Response(i, i, user, "yes") : i \in 1..MaxConfirmed}
    /\ \E hours \in [1..MaxConfirmed -> 0..(HoursPerDay - 1)] :
         options = [i \in 1..MaxConfirmed |->
                      [SessionOption(i, (CronDays + 1) * HoursPerDay + hours[i])
                         EXCEPT !.confirmed = TRUE]]
    /\ reminders = {}
    /\ sent = << >>
    /\ now = 0
    /\ pc = [p \in Tasks |-> "idle"]
    /\ loc = [p \in Tasks |-> NoLoc]
    /\ reply = NoReply
    /\ requests = [k \in Kinds |-> 0]

\* the job fires at the next instant of its schedule: the clock is read, then
\* get_confirmed_sessions.  The job goes on firing after the days followed;
\* those instants are all read as the last one of CronTimes, at which every
\* reminder time of InitCron is more than a day past, as it is at any later
\* instant.
CronTick(s) ==
    /\ pc[s] = "idle"
    /\ \E t \in CronTimes :
         /\ \/ t > now /\ \A u \in CronTimes : u > now => t <= u
            \/ t = now /\ \A u \in CronTimes : u <= now
         /\ now' = t
         /\ NextSession(s, [NoLoc EXCEPT !.op = "run", !.at = t,
                                         !.todo = GetConfirmedSessions])
    /\ UNCHANGED <<db, sent, requests>>

NextCron ==
    \/ \E s \in Schedulers : CronTick(s)
    \/ \E s \in Schedulers : RunLoadOptions(s)
    \/ \E s \in Schedulers : RunCheckExists(s)
    \/ \E s \in Schedulers : RunSend(s)
    \/ \E s \in Schedulers : RunMark(s)

\* the job fires at every instant of its schedule and every run goes on until
\* it returns
FairCron ==
    \A s \in Schedulers :
      /\ WF_vars(CronTick(s))
      /\ WF_vars(RunLoadOptions(s))
      /\ WF_vars(RunCheckExists(s))
      /\ WF_vars(RunSend(s))
      /\ WF_vars(RunMark(s))

SpecCron == InitCron /\ [][NextCron]_vars /\ FairCron

\* ---- session management in a chat that is not the session's ---------------
\* the database of InitReminders with a second group, of a chat the commands
\* do not come from; the session belongs to either group
InitGroups ==
    /\ \E chat \in Chats :
         groups = (1 :> [telegram_chat_id |-> chat])
                    @@ (2 :> [telegram_chat_id |-> 100 + NumChats + 1])
    /\ \E gid \in 1..2, user \in Users, o \in 1..MaxOptions :
         /\ sessions = (1 :> Session(gid, user))
         /\ responses = {Response(1, o, user, "yes")}
    /\ \E dts \in [1..MaxOptions -> EventTimes] :
         options = [o \in 1..MaxOptions |-> SessionOption(1, dts[o])]
    /\ reminders = {}
    /\ sent = << >>
    /\ now = 0
    /\ pc = [p \in Tasks |-> "idle"]
    /\ loc = [p \in Tasks |-> NoLoc]
    /\ reply = NoReply
    /\ requests = [k \in Kinds |-> 0]

SpecGroups == InitGroups /\ [][NextReminders]_vars

TypeOK ==
    /\ \A g \in DOMAIN groups : groups[g].telegram_chat_id \in Chats
    /\ DOMAIN sessions \subseteq SessionIds
    /\ \A s \in DOMAIN sessions :
         sessions[s].status \in {"active", "confirmed", "cancelled"}
    /\ DOMAIN options \subseteq OptionIds
    /\ \A o \in DOMAIN options : options[o].session_id \in DOMAIN sessions
    /\ \A r \in reminders :
         r.session_id \in DOMAIN sessions /\ r.days_before \in {14, 7, 3}
    /\ \A i \in 1..Len(sent) : sent[i].session_id \in DOMAIN sessions
    /\ now \in Times
    /\ DOMAIN pc = Tasks
    /\ \A k \in Kinds : requests[k] \in 0..MaxRequests[k]

\* ==== properties =========================================================
ConfirmedOptions(sid) == {o \in OptionsOf(sid) : options[o].confirmed}

\* the number of "yes" rows stored for an option
YesVotes(o) == Cardinality({r \in responses : r.option_id = o /\ r.response = "yes"})

Range(q) == {q[i] : i \in 1..Len(q)}

\* the step just taken received a command
CommandArrives == requests'["command"] = requests["command"] + 1

\* the step just taken received command op for an existing session, sent by
\* its creator from the session's chat
CreatorCommandArrives(op) ==
    /\ CommandArrives
    /\ \E p \in Procs :
         /\ pc[p] = "idle"
         /\ \/ reply'.op = op /\ Authorize(reply'.sid, reply'.user, reply'.chat) = "ok"
            \/ /\ loc'[p].op = op
               /\ Authorize(loc'[p].sid, loc'[p].user, loc'[p].chat) = "ok"

\* the session the command just received is about
ArrivedSid == IF reply'.op # "none" THEN reply'.sid
              ELSE loc'[CHOOSE p \in Procs : pc[p] = "idle" /\ pc'[p] # "idle"].sid

\* the step just taken is a step of a Cancel: it reports the outcome of one or
\* suspends one before its write
CancelStep ==
    \/ reply'.op = "cancel"
    \/ \E p \in Procs : pc[p] = "idle" /\ pc'[p] = "cancel_write"

\* C1: every session has at most one option with confirmed = TRUE, in every
\* reachable state of any interleaving of schedule, vote, Confirm, Cancel and
\* SetDeadline.
C1_AtMostOneConfirmedOption ==
    \A s \in DOMAIN sessions : Cardinality(ConfirmedOptions(s)) <= 1

\* C2 as stated: an option has confirmed = TRUE only while its session's
\* status is Confirmed.
C2_ConfirmedOnlyWhileSessionConfirmed ==
    \A o \in DOMAIN options :
        options[o].confirmed => sessions[options[o].session_id].status = "confirmed"

\* C2 amended: an option has confirmed = TRUE only while its session's status
\* is Confirmed or Cancelled (a Cancel after a Confirm keeps the flag); it is
\* never TRUE while the session is Active.
C2_ConfirmedOnlyWhileSessionConfirmedOrCancelled ==
    \A o \in DOMAIN options :
        options[o].confirmed =>
            sessions[options[o].session_id].status \in {"confirmed", "cancelled"}

\* a cancelled session that still has its confirmed option
C2_Witness ==
    \E o \in DOMAIN options :
        /\ options[o].confirmed
        /\ sessions[options[o].session_id].status = "cancelled"

\* C3: of two concurrent Confirm requests for one session at most one selects
\* a winner and writes: no Confirm commits its write to a session another
\* Confirm has already confirmed.
C3_OnlyOneConfirmWrites ==
    [][\A p \in Procs :
         (pc[p] = "confirm_write" /\ pc'[p] = "idle" /\ reply'.outcome = "ok")
            => sessions[loc[p].sid].status # "confirmed"]_vars

\* C4: a Confirm received from the creator for a session whose status is not
\* Active is rejected with a state error and changes no stored row; the
\* handler never goes on to read the options of such a session.
C4_ConfirmRejectedUnlessActive ==
    [][/\ (CreatorCommandArrives("confirm") /\ reply'.op = "confirm"
             /\ sessions[reply'.sid].status # "active")
          => (reply'.outcome \in {"state", "persistence"} /\ UNCHANGED db)
       /\ \A p \in Procs :
            (pc[p] = "idle" /\ pc'[p] = "confirm_options")
               => (sessions[loc'[p].sid].status = "active" /\ UNCHANGED db)]_vars

\* a second Confirm was rejected and the first one's option is still the only
\* confirmed option
C4_Witness ==
    /\ reply.op = "confirm"
    /\ reply.outcome = "state"
    /\ reply.sid \in DOMAIN sessions
    /\ sessions[reply.sid].status = "confirmed"
    /\ Cardinality(ConfirmedOptions(reply.sid)) = 1

\* C5: the write of Confirm is all-or-nothing: no session is Confirmed without
\* a confirmed option, and no session with a confirmed option is Active.
C5_ConfirmWriteAllOrNothing ==
    \A s \in DOMAIN sessions :
        /\ sessions[s].status = "confirmed" => ConfirmedOptions(s) # {}
        /\ ConfirmedOptions(s) # {} => sessions[s].status # "active"

\* a Confirm has just committed its write
C5_Witness ==
    /\ reply.op = "confirm"
    /\ reply.outcome = "ok"
    /\ sessions[reply.sid].status = "confirmed"
    /\ ConfirmedOptions(reply.sid) # {}

\* C6: the winner Confirm selects is the first option, in the datetime-
\* ascending order the options were loaded in, among those with the highest
\* number of Yes responses (No and Maybe are not counted); it is the option
\* the write marks confirmed.
C6_WinnerIsFirstWithMostYes ==
    [][\A p \in Procs :
         /\ (pc[p] = "confirm_options" /\ pc'[p] = "confirm_responses")
              => LET q == loc'[p].opts
                 IN /\ Range(q) = OptionsOf(loc[p].sid)
                    /\ \A i, j \in 1..Len(q) :
                         i < j => /\ q[i] # q[j]
                                  /\ options[q[i]].datetime <= options[q[j]].datetime
         /\ (pc[p] = "confirm_responses" /\ pc'[p] = "confirm_write")
              => LET q == loc[p].opts
                 IN \E i \in 1..Len(q) :
                      /\ loc'[p].best = q[i]
                      /\ YesVotes(q[i]) >= 1
                      /\ \A j \in 1..Len(q) :
                           /\ YesVotes(q[j]) <= YesVotes(q[i])
                           /\ j < i => YesVotes(q[j]) < YesVotes(q[i])
         /\ (pc[p] = "confirm_write" /\ pc'[p] = "idle" /\ reply'.outcome = "ok")
              => /\ options'[loc[p].best].confirmed
                 /\ \A o \in DOMAIN options :
                      o # loc[p].best => options'[o] = options[o]]_vars

\* two options tie on the number of Yes responses and the one with the earlier
\* datetime, which was created later, is the confirmed one
C6_Witness ==
    /\ reply.op = "confirm"
    /\ reply.outcome = "ok"
    /\ \E a, b \in OptionsOf(reply.sid) :
         /\ a > b
         /\ options[a].datetime < options[b].datetime
         /\ YesVotes(a) = YesVotes(b)
         /\ YesVotes(a) >= 1
         /\ ConfirmedOptions(reply.sid) = {a}

\* C7: a Confirm that finds no Yes response for any loaded option ends with
\* "no winner" and changes no stored row; and only such a Confirm ends so.
C7_NoYesVotesNoWinner ==
    [][\A p \in Procs :
         /\ (pc[p] = "confirm_responses" /\ pc'[p] # "confirm_responses"
               /\ \A o \in Range(loc[p].opts) : YesVotes(o) = 0)
              => /\ pc'[p] = "idle"
                 /\ reply'.outcome \in {"no_winner", "persistence"}
                 /\ UNCHANGED db
         /\ (pc[p] = "confirm_responses" /\ pc'[p] = "idle"
               /\ reply'.outcome = "no_winner")
              => /\ \A o \in Range(loc[p].opts) : YesVotes(o) = 0
                 /\ UNCHANGED db]_vars

\* a Confirm ended with "no winner" although a No or Maybe response is stored;
\* the session is still Active and no option is confirmed
C7_Witness ==
    /\ reply.op = "confirm"
    /\ reply.outcome = "no_winner"
    /\ sessions[reply.sid].status = "active"
    /\ OptionsOf(reply.sid) # {}
    /\ ConfirmedOptions(reply.sid) = {}
    /\ \E r \in responses : r.session_id = reply.sid /\ r.response # "yes"

\* C8: the status of a session changes only Active -> Confirmed,
\* Active -> Cancelled or Confirmed -> Cancelled; Cancelled is terminal.
C8_StatusTransitions ==
    [][\A s \in DOMAIN sessions :
         sessions'[s].status # sessions[s].status =>
            <<sessions[s].status, sessions'[s].status>> \in
                {<<"active", "confirmed">>, <<"active", "cancelled">>,
                 <<"confirmed", "cancelled">>}]_vars

\* C9: a Cancel received from the creator is rejected, with a state error and
\* no change, exactly when the session is already Cancelled; from Active or
\* Confirmed it goes on to its write, which sets the status to Cancelled.
C9_CancelFromActiveOrConfirmed ==
    [][/\ (CreatorCommandArrives("cancel") /\ reply'.op = "cancel"
             /\ reply'.outcome # "persistence")
          => /\ sessions[reply'.sid].status = "cancelled"
             /\ reply'.outcome = "state"
             /\ UNCHANGED db
       /\ (CreatorCommandArrives("cancel") /\ sessions[ArrivedSid].status = "cancelled")
          => /\ reply'.op = "cancel"
             /\ reply'.outcome \in {"state", "persistence"}
             /\ UNCHANGED db
       /\ \A p \in Procs :
            (pc[p] = "cancel_write" /\ pc'[p] = "idle")
               => \/ reply'.outcome = "persistence" /\ UNCHANGED db
                  \/ /\ reply'.outcome = "ok"
                     /\ sessions'[loc[p].sid].status = "cancelled"]_vars

\* a Cancel of a cancelled session was rejected
C9_Witness ==
    /\ reply.op = "cancel"
    /\ reply.outcome = "state"
    /\ reply.sid \in DOMAIN sessions
    /\ sessions[reply.sid].status = "cancelled"

\* C10: a step of Cancel changes nothing but the status of its session: the
\* options and their confirmed flags, the responses, the reminder markers, the
\* groups and every other column of every session are as before.
C10_CancelChangesOnlyStatus ==
    [][CancelStep
         => /\ UNCHANGED <<groups, options, responses, reminders>>
            /\ DOMAIN sessions' = DOMAIN sessions
            /\ \A s \in DOMAIN sessions :
                 /\ [sessions'[s] EXCEPT !.status = "any"] =
                        [sessions[s] EXCEPT !.status = "any"]
                 /\ sessions'[s].status # sessions[s].status =>
                        (reply'.outcome = "ok" /\ s = reply'.sid)]_vars

\* a Cancel of a confirmed session has just committed: the confirmed option,
\* the responses and a reminder marker of the session are still there
C10_Witness ==
    /\ reply.op = "cancel"
    /\ reply.outcome = "ok"
    /\ sessions[reply.sid].status = "cancelled"
    /\ ConfirmedOptions(reply.sid) # {}
    /\ \E r \in responses : r.session_id = reply.sid
    /\ \E r \in reminders : r.session_id = reply.sid

\* C11: a session is mutated only by its creator: a Confirm, Cancel or
\* SetDeadline received from a user other than created_by is rejected with
\* the permission error and changes no stored row, such a handler never gets
\* to its reads or its write, and every step that changes a session row or
\* one of its options is taken by a handler run for the session's creator.
C11_OnlyCreatorMutates ==
    [][/\ (/\ CommandArrives
           /\ reply'.op \in {"confirm", "cancel", "deadline"}
           /\ reply'.sid \in DOMAIN sessions
           /\ sessions[reply'.sid].created_by # reply'.user)
          => (reply'.outcome \in {"permission", "persistence"} /\ UNCHANGED db)
       /\ \A p \in Procs :
            (pc[p] = "idle"
               /\ pc'[p] \in {"confirm_options", "cancel_write", "deadline_write"})
              => (sessions[loc'[p].sid].created_by = loc'[p].user /\ UNCHANGED db)
       /\ \A s \in DOMAIN sessions :
            (sessions'[s] # sessions[s]
               \/ \E o \in OptionsOf(s) : options'[o] # options[o])
              => \E p \in Procs :
                   /\ pc[p] \in {"confirm_write", "cancel_write", "deadline_write"}
                   /\ pc'[p] = "idle"
                   /\ loc[p].sid = s
                   /\ loc[p].user = sessions[s].created_by]_vars

\* a command from a user who is not the creator was rejected; the session is
\* still active, without deadline and without confirmed option
C11_Witness ==
    /\ reply.op \in {"confirm", "cancel", "deadline"}
    /\ reply.outcome = "permission"
    /\ reply.sid \in DOMAIN sessions
    /\ sessions[reply.sid].created_by # reply.user
    /\ sessions[reply.sid].status = "active"
    /\ sessions[reply.sid].deadline = NoTime
    /\ OptionsOf(reply.sid) # {}
    /\ ConfirmedOptions(reply.sid) = {}

\* a SetDeadline handler passes from its checks to its write
DeadlineProceeds(p) == pc[p] = "idle" /\ pc'[p] = "deadline_write"

\* a SetDeadline handler performs its write
DeadlineWrites(p) == pc[p] = "deadline_write" /\ pc'[p] = "idle" /\ reply'.outcome = "ok"

\* C12 as stated: a SetDeadline whose timestamp is not strictly later than the
\* clock is rejected before any write, and a deadline is strictly later than
\* the clock at the moment it is written.
C12_DeadlineInFutureWhenWritten ==
    [][\A p \in Procs :
         /\ DeadlineProceeds(p) => (loc'[p].dl > now /\ UNCHANGED db)
         /\ DeadlineWrites(p) => loc[p].dl > now]_vars

\* C12, amended: a SetDeadline whose timestamp is not strictly later than the
\* clock read by the check is rejected with the validation error (or a
\* database error) before any write; the deadline a write stores is the one
\* that passed the check, so it was strictly later than the clock when it was
\* checked, not necessarily when it is written.
C12_DeadlineInFutureWhenChecked ==
    [][/\ \A p \in Procs :
            /\ DeadlineProceeds(p) => (loc'[p].dl > now /\ UNCHANGED db)
            /\ DeadlineWrites(p) =>
                 /\ sessions' = [sessions EXCEPT ![loc[p].sid].deadline = loc[p].dl]
                 /\ UNCHANGED <<groups, options, responses, reminders>>
            /\ (pc[p] = "deadline_write" /\ pc'[p] = "deadline_write")
                 => loc'[p] = loc[p]
       /\ (CommandArrives /\ reply'.op = "deadline")
            => /\ UNCHANGED db
               /\ reply'.outcome = "validation"
                    => Authorize(reply'.sid, reply'.user, reply'.chat) = "ok"
               /\ (now = MaxTime
                     /\ Authorize(reply'.sid, reply'.user, reply'.chat) = "ok")
                    => reply'.outcome \in {"validation", "persistence"}
       /\ \A s \in DOMAIN sessions :
            (s \in DOMAIN sessions' /\ sessions'[s].deadline # sessions[s].deadline)
              => \E p \in Procs : DeadlineWrites(p) /\ loc[p].sid = s]_vars

\* a deadline was stored after the clock had advanced past the check, and a
\* later SetDeadline was rejected by the check
C12_Witness ==
    /\ reply.op = "deadline"
    /\ reply.outcome = "validation"
    /\ sessions[reply.sid].deadline # NoTime
    /\ sessions[reply.sid].deadline <= now

\* ---- reminder service ---------------------------------------------------
\* the messages Telegram accepted for an offset of a session
Delivered(sid, days) ==
    {i \in 1..Len(sent) : /\ sent[i].session_id = sid
                          /\ sent[i].days_before = days
                          /\ sent[i].delivered}

\* the messages handed to Telegram for an offset of a session, accepted or not
Attempts(sid, days) ==
    {i \in 1..Len(sent) : sent[i].session_id = sid /\ sent[i].days_before = days}

\* the session and offset a run is sending for or marking
RunKey(s) == <<loc[s].sid, Head(loc[s].ivs)>>

\* C13: across runs that follow one another, whatever sends and marker
\* writes fail, at most one notification is delivered for a session and offset.
C13_DispatchedAtMostOnce ==
    \A sid \in DOMAIN sessions :
      \A i \in 1..Len(ReminderIntervals) :
        Cardinality(Delivered(sid, ReminderIntervals[i])) <= 1

\* C14: two overlapping runs that both find the same session and offset due
\* never both get past the dispatch: one of them does not send.
C14_OverlappingRunsOneDispatch ==
    \A s, t \in Tasks :
      (s # t /\ pc[s] = "run_mark" /\ pc[t] = "run_mark") => RunKey(s) # RunKey(t)

\* C15: recording a marker that already exists is not an error: the run that
\* does so goes on, and the stored marker stays as it is.
C15_SecondRecordIsNotAnError ==
    [][\A s \in Tasks :
         (pc[s] = "run_mark" /\ ReminderExists(loc[s].sid, Head(loc[s].ivs))
            /\ (pc'[s] # pc[s] \/ loc'[s] # loc[s]))
           => (reply'.outcome # "error" /\ reminders' = reminders)]_vars

\* a marker is stored for the offset of the session
Marked(sid, days) ==
    \E r \in reminders : r.session_id = sid /\ r.days_before = days

\* task s takes a step of its run that is not a failed database call
RunStep(s) == (pc'[s] # pc[s] \/ loc'[s] # loc[s]) /\ reply'.outcome # "persistence"

\* C16: there is at most one Reminder row per (session_id, days_before), and
\* the marker of one offset neither prevents nor replaces the marker of
\* another offset of the same session: markers are never removed, a run that
\* finds no marker for its offset goes on to send, and a run that records an
\* offset without marker adds exactly that row.
C16_OneMarkerPerOffset ==
    [][/\ \A r1, r2 \in reminders' :
            (r1.session_id = r2.session_id /\ r1.days_before = r2.days_before)
              => r1 = r2
       /\ reminders \subseteq reminders'
       /\ \A s \in Tasks :
            /\ (pc[s] = "run_exists" /\ RunStep(s)
                  /\ ~Marked(loc[s].sid, Head(loc[s].ivs)))
                 => pc'[s] = "run_send"
            /\ (pc[s] = "run_mark" /\ RunStep(s)
                  /\ ~Marked(loc[s].sid, Head(loc[s].ivs)))
                 => \E r \in reminders' :
                      /\ r.session_id = loc[s].sid
                      /\ r.days_before = Head(loc[s].ivs)
                      /\ reminders' = reminders \cup {r}
                      /\ r \notin reminders]_vars

\* one session has the markers of two different offsets
C16_Witness ==
    \E r1, r2 \in reminders :
      r1.session_id = r2.session_id /\ r1.days_before # r2.days_before

\* the step just taken handed a message to Telegram and the send failed
SendFailed == Len(sent') = Len(sent) + 1 /\ ~sent'[Len(sent')].delivered

\* C17: a marker is written only after a successful dispatch: a run is at its
\* marker write only when a message for that offset was delivered, every new
\* marker is for an offset with a delivered message, and a failed send writes
\* no marker and does not lead to the marker write.
C17_MarkerOnlyAfterDispatch ==
    [][/\ \A s \in Tasks :
            pc'[s] = "run_mark"
              => (Delivered(loc[s].sid, Head(loc[s].ivs)) # {})'
       /\ \A r \in reminders' \ reminders :
            /\ Delivered(r.session_id, r.days_before) # {}
            /\ \E s \in Tasks :
                 pc[s] = "run_mark" /\ RunKey(s) = <<r.session_id, r.days_before>>
       /\ SendFailed
            => /\ reminders' = reminders
               /\ \A s \in Tasks : pc[s] = "run_send" => pc'[s] # "run_mark"]_vars

\* a send failed, the run has returned, and no marker was written for the
\* offset, while another offset that was delivered has its marker
C17_Witness ==
    /\ NoRunInProgress
    /\ \E i \in 1..Len(sent) :
         /\ ~sent[i].delivered
         /\ ~Marked(sent[i].session_id, sent[i].days_before)
    /\ \E r \in reminders : Delivered(r.session_id, r.days_before) # {}

\* the confirmed time of a session
ConfirmedTime(sid) ==
    options[CHOOSE o \in ConfirmedOptions(sid) : TRUE].datetime

\* instant at lies in the tolerance window of the offset of the session
InWindow(at, sid, days) ==
    Abs(at - (ConfirmedTime(sid) - days * HoursPerDay)) <= 1

Offsets == Range(ReminderIntervals)

C19_RunAttemptsEverySession ==
    [][\A s \in Tasks :
         (pc[s] \in {"run_options", "run_exists", "run_mark"} /\ pc'[s] = "idle")
           => (reply'.outcome = "ok" /\ loc[s].todo = << >>)]_vars

\* C20: every reminder is addressed to the Telegram chat of the group the
\* session belongs to.
C20_AddressedToGroupChat ==
    \A i \in 1..Len(sent) :
      sent[i].chat_id = groups[sessions[sent[i].session_id].group_id].telegram_chat_id

\* the step just taken is a step of a run of the reminder service
RunActs ==
    \E s \in Tasks :
      /\ loc[s].op = "run" \/ loc'[s].op = "run" \/ (reply'.op = "run" /\ pc[s] = "idle")
      /\ pc'[s] # pc[s] \/ loc'[s] # loc[s] \/ requests'["run"] # requests["run"]

\* C21: a run of the reminder service only reads sessions, options and
\* responses and only adds Reminder markers: none of its steps changes a
\* group, a session, an option or a response, or removes a marker.
C21_RunOnlyWritesMarkers ==
    [][RunActs => /\ UNCHANGED <<groups, sessions, options, responses>>
                  /\ reminders \subseteq reminders']_vars

\* a run that sent a reminder and wrote its marker has returned
C21_Witness ==
    /\ reply.op = "run"
    /\ reply.outcome = "ok"
    /\ \E r \in reminders : Delivered(r.session_id, r.days_before) # {}
    /\ \A sid \in DOMAIN sessions : sessions[sid].status = "confirmed"

\* ---- responses ----------------------------------------------------------
\* the rows stored for a (session, option, user) key
RowsOfKey(sid, oid, user) ==
    {r \in responses : r.session_id = sid /\ r.option_id = oid /\ r.user_id = user}

\* the rows stored for all other keys
RowsOfOtherKeys(sid, oid, user) == responses \ RowsOfKey(sid, oid, user)

\* C22: in every state, also those reached by overlapping upserts for one
\* key, there is at most one Response row per (session_id, option_id, user_id).
C22_OneResponsePerKey ==
    \A r1, r2 \in responses :
      (r1.session_id = r2.session_id /\ r1.option_id = r2.option_id
         /\ r1.user_id = r2.user_id) => r1 = r2

\* an upsert has deleted and is about to insert, and an overlapping upsert
\* for the same key has already inserted its row
C22_Witness ==
    \E p \in Procs :
      /\ pc[p] = "vote_insert"
      /\ \E r \in RowsOfKey(loc[p].sid, loc[p].oid, loc[p].user) :
           r.response # loc[p].value

\* C23: an upsert that succeeds leaves exactly one row for its key, holding
\* the value of that call, and neither of its two statements touches the rows
\* of other keys.
C23_UpsertKeepsLastValue ==
    [][\A p \in Procs :
         /\ (pc[p] = "idle" /\ pc'[p] = "vote_insert")
              => /\ (RowsOfKey(loc[p].sid, loc[p].oid, loc[p].user) = {})'
                 /\ RowsOfOtherKeys(loc'[p].sid, loc'[p].oid, loc'[p].user)
                      = (RowsOfOtherKeys(loc[p].sid, loc[p].oid, loc[p].user))'
         /\ (pc[p] = "vote_insert" /\ pc'[p] = "idle" /\ reply'.outcome = "ok")
              => /\ responses' \ RowsOfOtherKeys(loc[p].sid, loc[p].oid, loc[p].user)
                      = {Response(loc[p].sid, loc[p].oid, loc[p].user, loc[p].value)}
                 /\ RowsOfOtherKeys(loc[p].sid, loc[p].oid, loc[p].user)
                      \subseteq responses']_vars

\* two upserts were received and the second has returned: the only row is
\* the one of its key, with the value "no"
C23_Witness ==
    /\ requests["vote"] = 2
    /\ reply.op = "vote"
    /\ reply.outcome = "ok"
    /\ \A p \in Procs : pc[p] = "idle"
    /\ \E r \in responses :
         /\ responses = {r}
         /\ r.session_id = reply.sid
         /\ r.user_id = reply.user
         /\ r.response = "no"

\* ---- handle_schedule ----------------------------------------------------
\* C24: finding or creating the group of a chat never fails because the
\* group exists: a command that goes to create the group of a chat obtains
\* the group of that chat and goes on to create its session, also when an
\* interleaved command has created the group in the meantime.
C24_EnsureGroupObtainsGroup ==
    [][\A p \in Procs :
         (pc[p] = "schedule_group" /\ pc'[p] # pc[p] /\ GroupChatIdTaken(loc[p].chat))
           => /\ pc'[p] = "schedule_session"
              /\ loc'[p].gid = FindGroupByChatId(loc[p].chat)]_vars

\* a title the rules for titles reject: fewer than MinTitleLen or more than
\* MaxTitleLen characters, or a line break
TitleInvalid(title) ==
    title.chars < MinTitleLen \/ title.chars > MaxTitleLen \/ title.linebreak

\* option texts the rules reject: no entry, more than MaxOptionCount entries,
\* or an entry of more than MaxOptionLen characters
TextsInvalid(texts) ==
    \/ texts = << >>
    \/ Len(texts) > MaxOptionCount
    \/ \E i \in 1..Len(texts) : texts[i].chars > MaxOptionLen

\* C25: a session-creating command with an invalid title or invalid option
\* texts is rejected with the validation error before the store is touched:
\* the handler returns, and no group, session or option is created.
C25_InvalidInputRejected ==
    [][\A p \in Procs, chat \in Chats, user \in Users,
          title \in Titles, texts \in OptionTexts :
         (/\ TitleInvalid(title) \/ TextsInvalid(texts)
          /\ Receive(p, "schedule")
          /\ ScheduleCommand(p, chat, user, title, texts))
           => /\ pc'[p] = "idle"
              /\ reply'.outcome \in {"validation", "persistence"}
              /\ UNCHANGED db]_vars

\* C26: a session and its options are created as one batch: every session
\* in the store has between one and MaxOptionCount options, none of them
\* confirmed before a Confirm, and was created Active.
C26_SessionHasItsOptions ==
    \A sid \in DOMAIN sessions :
      /\ Cardinality(OptionsOf(sid)) >= 1
      /\ Cardinality(OptionsOf(sid)) <= MaxOptionCount

\* ---- parse_datetime -------------------------------------------------------
TextGarbage == <<"g", "a", "r", "b", "a", "g", "e">>
TextIso == <<"2", "0", "2", "7", "-", "1", "2", "-", "0", "1", "T", "1", "9", ":", "3", "0", ":", "0", "0", "Z">>
TextPastDate == <<"1", "5", ".", "0", "8", ".", "2", "5", " ", "1", "9", ":", "0", "0">>
TextOpenColon == <<"f", "r", "i", "d", "a", "y", " ", "1", "9", ":">>

\* C27: parse_datetime is total: whatever the text, it returns a timestamp
\* and neither fails nor aborts.
C27_ParseIsTotal ==
    reply.op = "parse" => reply.outcome = "ok"

IsNumericDate(text) == ParseEuropeanDateFormat(Trim(text)).outcome = "ok"

C29_FallbackIsTomorrow ==
    \A p \in Procs :
      (pc[p] = "parsed" /\ loc[p].value = TextGarbage)
        => loc[p].dl = DaysAhead(now, 1, 19, 0)

\* C30: a text that is a strict ISO-8601 timestamp, and neither a numeric
\* date nor a weekday phrase, parses to exactly that timestamp.
C30_IsoParsesToItself ==
    \A p \in Procs :
      (pc[p] = "parsed" /\ loc[p].value = TextIso)
        => loc[p].dl = Timestamp(2027, 12, 1, 19, 30)

\* ---- validate_telegram_chat_id --------------------------------------------
\* the chat id is 0 or lies in -999999999..-1
TooSmallForGroup(id) ==
    (id.millions = 0 /\ id.units = 0) \/ (id.negative /\ id.millions < 1000)

\* C31: validate_telegram_chat_id rejects 0 and every chat id in
\* -999999999..-1, so no handler goes on with such a chat id.
C31_SmallNegativeRejected ==
    \A p \in Procs :
      pc[p] = "settings_group" => ~TooSmallForGroup(loc[p].value)

\* ---- the tolerance window --------------------------------------------------
\* the step just taken handed a reminder to Telegram
Dispatches(s) == pc[s] = "run_send" /\ Len(sent') = Len(sent) + 1

\* minutes between the invocation time of run s and the reminder time of the
\* offset it is at
MinutesFromDue(s) ==
    Abs(loc[s].at - (ConfirmedTime(loc[s].sid) - Head(loc[s].ivs) * MinutesPerDay))

\* C32: a reminder for an offset is dispatched only when the invocation time
\* is at most 60 minutes away from the confirmed time less the offset.
C32_DispatchedWithinOneHour ==
    [][\A s \in Tasks : Dispatches(s) => MinutesFromDue(s) <= MinutesPerHour]_vars

\* ---- a confirmed session without a confirmed option -----------------------
\* C33: a run that finds a confirmed session none of whose options is
\* confirmed skips that session only: it goes on with the next confirmed
\* session it loaded, and returns only when there is none left.
C33_FaultSkipsOnlyThatSession ==
    [][\A s \in Tasks :
         (pc[s] = "run_options" /\ ConfirmedOptions(loc[s].sid) = {} /\ RunStep(s))
           => IF loc[s].todo = << >> THEN pc'[s] = "idle"
              ELSE pc'[s] = "run_options" /\ loc'[s].sid = Head(loc[s].todo)]_vars

\* ---- re-voting -------------------------------------------------------------
\* C34: re-voting replaces the row of its key atomically: when the key has a
\* row and an upsert for it is in progress, the key has a row in every state,
\* so that no tally or list reads the responses without it.
C34_RevoteNeverLeavesKeyEmpty ==
    [][\A p \in Procs :
         (pc[p] = "idle" /\ pc'[p] = "vote_insert"
            /\ RowsOfKey(loc'[p].sid, loc'[p].oid, loc'[p].user) # {})
           => (RowsOfKey(loc[p].sid, loc[p].oid, loc[p].user) # {})']_vars

\* ---- days_until_weekday ----------------------------------------------------
\* the ISO number (Monday = 1 .. Sunday = 7) of the weekday a text names
NamedWeekday(text) ==
    LET e == WeekdayNames[CHOOSE i \in 1..Len(WeekdayNames) :
                            text \in WeekdayNames[i].names]
    IN IF e.target = 0 THEN 7 ELSE e.target

\* whole days from the day of the call to the day of the timestamp
DaysFromToday(t) == t \div MinutesPerDay - now \div MinutesPerDay

C36_ListDegrades ==
    [][\A p \in Procs :
         (pc[p] \in {"list_options", "list_responses"} /\ pc'[p] = "idle")
           => /\ reply'.outcome \in {"ok", "no_votes"}
              /\ reply'.sid = loc[p].todo]_vars

\* ---- the values of the responses ---------------------------------------------
\* C37: every stored response holds one of the three values the tally
\* compares with: "yes", "no" or "maybe".
C37_StoredResponseIsCanonical ==
    \A r \in responses : r.response \in ResponseValues

\* ---- reminders and the status of the session -------------------------------
\* C38: a reminder is handed to Telegram only for a session that is confirmed
\* at the moment of the dispatch, also when the session was cancelled after
\* the run had loaded it.
C38_DispatchedOnlyIfConfirmed ==
    [][\A s \in Tasks :
         (pc[s] = "run_send" /\ sent' # sent)
           => sessions[loc[s].sid].status = "confirmed"]_vars

\* ---- the built-in schedule ---------------------------------------------------
\* a send has failed
SomeSendFailed == \E i \in 1..Len(sent) : ~sent[i].delivered

\* C39: with runs at 09:00 and 18:00 UTC every day, every session that stays
\* confirmed and whose confirmed time is more than 14 days ahead, at any hour
\* of the day, eventually has a notification dispatched for each of the three
\* offsets, unless a send fails.
C39_EveryOffsetEventuallyDispatched ==
    <>(\/ SomeSendFailed
       \/ \A sid \in 1..MaxConfirmed : \A d \in Offsets : Delivered(sid, d) # {})

\* ---- the owning group ----------------------------------------------------------
\* the chat is not the chat of the group the session belongs to
ForeignChat(sid, chat) ==
    \A g \in DOMAIN groups :
      groups[g].telegram_chat_id = chat => g # sessions[sid].group_id

\* C40: a Confirm, Cancel or SetDeadline received from the creator in a chat
\* whose group is not the group of the session is rejected and changes no
\* stored row, and such a handler never gets to its reads or its write.
C40_ForeignGroupRejected ==
    [][/\ (/\ CommandArrives
           /\ reply'.op \in {"confirm", "cancel", "deadline"}
           /\ reply'.sid \in DOMAIN sessions
           /\ sessions[reply'.sid].created_by = reply'.user
           /\ ForeignChat(reply'.sid, reply'.chat))
          => (/\ reply'.outcome \in {"wrong_group", "group_missing", "persistence"}
              /\ UNCHANGED db)
       /\ \A p \in Procs :
            (pc[p] = "idle"
               /\ pc'[p] \in {"confirm_options", "cancel_write", "deadline_write"})
              => ~ForeignChat(loc'[p].sid, loc'[p].chat)]_vars

\* a command of the creator from the chat of another group was rejected; the
\* session is still active, without deadline and without confirmed option
C40_Witness ==
    /\ reply.op \in {"confirm", "cancel", "deadline"}
    /\ reply.outcome = "wrong_group"
    /\ reply.sid \in DOMAIN sessions
    /\ sessions[reply.sid].created_by = reply.user
    /\ ForeignChat(reply.sid, reply.chat)
    /\ sessions[reply.sid].status = "active"
    /\ sessions[reply.sid].deadline = NoTime
    /\ ConfirmedOptions(reply.sid) = {}

====
